---- MODULE Spec2Model ----
(***************************************************************************)
(* The XRPC request dispatcher of sprksocial/xrpc-server: the Hono         *)
(* middleware chain built by Server (src/src/server.ts) and the rate       *)
(* limiter (src/src/rate-limiter.ts).  One request is in flight at a time; *)
(* every middleware of its chain is one action.  The application is wired  *)
(* as tests/_util.ts createServer wires it: the catch-all registered by    *)
(* the constructor, then the routes, then the catch-all once more.         *)
(***************************************************************************)
EXTENDS Integers, Sequences, FiniteSets, TLC

\* ---------------------------------------------------------------- bounds
MaxRequests == 3
GlobalPoints == 3
SharedPoints == 3
RoutePoints == 2

\* undefined / null of the source
None == "none"

\* ------------------------------------------------------- server configuration
\* lexicons handed to createServer: the kind of each NSID's main definition
LexDef(nsid) ==
    CASE nsid = "io.example.noLimit" -> "query"
      [] nsid = "io.example.routeLimit" -> "query"
      [] nsid = "io.example.sharedLimitOne" -> "query"
      [] nsid = "io.example.sharedLimitTwo" -> "query"
      [] nsid = "io.example.toggleLimit" -> "query"
      [] nsid = "io.example.nonExistent" -> "query"
      [] nsid = "io.example.authTest" -> "procedure"
      [] nsid = "io.example.streamOne" -> "subscription"
      [] OTHER -> None

\* NSIDs a client may ask for; the last one has no lexicon definition
Nsids ==
    {"io.example.noLimit", "io.example.routeLimit", "io.example.sharedLimitOne",
     "io.example.sharedLimitTwo", "io.example.toggleLimit",
     "io.example.nonExistent", "io.example.authTest", "io.example.streamOne",
     "io.example.doesNotExist"}

\* opts.rateLimits.global and opts.rateLimits.shared
GlobalLimits == <<[name |-> "global-ip", points |-> GlobalPoints,
                   calcKey |-> None, calcPoints |-> None, failClosed |-> FALSE]>>

SharedLimits == <<[name |-> "shared-limit", points |-> SharedPoints,
                   calcKey |-> None, calcPoints |-> None, failClosed |-> TRUE]>>

\* opts.rateLimits.bypass: the predicate of the configuration,
\* (ctx) => ctx.req.headers.get("x-ratelimit-bypass") === "bypass"
bypass(req) == req.bypassHdr = "bypass"

\* the XRPCHandlerConfig handed to server.method(nsid, config)
MethodConfig(nsid) ==
    CASE nsid = "io.example.noLimit" ->
           [auth |-> FALSE, rateLimit |-> <<>>]
      [] nsid = "io.example.routeLimit" ->
           [auth |-> FALSE,
            rateLimit |-> <<[shared |-> FALSE, name |-> None, points |-> RoutePoints,
                             calcKey |-> "str", calcPoints |-> None]>>]
      [] nsid = "io.example.sharedLimitOne" ->
           [auth |-> FALSE,
            rateLimit |-> <<[shared |-> TRUE, name |-> "shared-limit", points |-> 0,
                             calcKey |-> None, calcPoints |-> "points"]>>]
      [] nsid = "io.example.sharedLimitTwo" ->
           [auth |-> FALSE,
            rateLimit |-> <<[shared |-> TRUE, name |-> "shared-limit", points |-> 0,
                             calcKey |-> None, calcPoints |-> "points"]>>]
      [] nsid = "io.example.toggleLimit" ->
           [auth |-> FALSE,
            rateLimit |-> <<[shared |-> FALSE, name |-> None, points |-> RoutePoints,
                             calcKey |-> None, calcPoints |-> "shouldCount"],
                            [shared |-> FALSE, name |-> None, points |-> RoutePoints + 1,
                             calcKey |-> None, calcPoints |-> None]>>]
      [] nsid = "io.example.authTest" ->
           [auth |-> TRUE,
            rateLimit |-> <<[shared |-> FALSE, name |-> None, points |-> RoutePoints,
                             calcKey |-> None, calcPoints |-> None]>>]

\* NSIDs registered with server.method / server.streamMethod
Methods ==
    {"io.example.noLimit", "io.example.routeLimit", "io.example.sharedLimitOne",
     "io.example.sharedLimitTwo", "io.example.toggleLimit", "io.example.authTest"}

StreamMethods == {"io.example.streamOne"}

\* ------------------------------------------------------------ rate limiters
\* the limiter objects opts.rateLimits.creator builds: the global and the
\* shared ones in the constructor, the inline ones in setupRouteRateLimits
GlobalId(name) == [kind |-> "global", name |-> name, idx |-> 0]

SharedId(name) == [kind |-> "shared", name |-> name, idx |-> 0]

InlineId(nsid, i) == [kind |-> "inline", name |-> nsid, idx |-> i]

globalRateLimiters == [i \in DOMAIN GlobalLimits |-> GlobalId(GlobalLimits[i].name)]

sharedRateLimiters ==
    [name \in {SharedLimits[i].name : i \in DOMAIN SharedLimits} |-> SharedId(name)]

Limiters ==
    {globalRateLimiters[i] : i \in DOMAIN globalRateLimiters}
    \cup {SharedId(SharedLimits[i].name) : i \in DOMAIN SharedLimits}
    \cup {l \in [kind : {"inline"}, name : Methods, idx : 1..2] :
            /\ l.idx \in DOMAIN MethodConfig(l.name).rateLimit
            /\ ~MethodConfig(l.name).rateLimit[l.idx].shared}

\* the RateLimiterOpts the server hands to the creator ({...limit, keyPrefix}
\* in the constructor, keyPrefix `nsid-${i}` for an inline limit), as the
\* RateLimiter constructor keeps them
LimiterOpts(l) ==
    LET d == IF l.kind = "global"
             THEN CHOOSE g \in {GlobalLimits[i] : i \in DOMAIN GlobalLimits} : g.name = l.name
             ELSE IF l.kind = "shared"
             THEN CHOOSE g \in {SharedLimits[i] : i \in DOMAIN SharedLimits} : g.name = l.name
             ELSE [name |-> l.name,
                   points |-> MethodConfig(l.name).rateLimit[l.idx].points,
                   calcKey |-> MethodConfig(l.name).rateLimit[l.idx].calcKey,
                   calcPoints |-> MethodConfig(l.name).rateLimit[l.idx].calcPoints,
                   failClosed |-> FALSE]
    IN [keyPrefix |-> IF l.kind = "inline"
                      THEN <<"nsid-", IF l.idx = 1 THEN "0" ELSE "1">>
                      ELSE <<"rl-", l.name>>,
        points |-> d.points,
        calcKey |-> d.calcKey,
        calcPoints |-> d.calcPoints,
        bypassSecret |-> None,
        bypassIps |-> {},
        failClosed |-> d.failClosed]

\* the fields of the object the RateLimiter constructor builds from its
\* opts: it assigns limiter, bypassSecret, bypassIps, calcKey and calcPoints;
\* this.failClosed is declared and never assigned
RateLimiter(opts) ==
    [keyPrefix |-> opts.keyPrefix,
     points |-> opts.points,
     calcKey |-> opts.calcKey,
     calcPoints |-> opts.calcPoints,
     bypassSecret |-> opts.bypassSecret,
     bypassIps |-> opts.bypassIps,
     failClosed |-> FALSE]

\* ----------------------------------------------------------------- requests
Ips == {"ip1", "ip2"}

\* one HTTP request as the dispatcher sees it.  ip is the first element of
\* x-forwarded-for, else x-real-ip, else None; paramsOk and body say whether
\* the query string / the body satisfy the method's lexicon schema; authOk
\* whether the auth verifier accepts the credentials; reset whether the
\* handler calls ctx.resetRouteRateLimits()
ReqSet(nsids, methods, upgrades, ips, bypassHdrs, authOks, bodies, paramsOks, strs, pointss, shouldCounts, resets) ==
    [nsid : nsids, method : methods, upgrade : upgrades, ip : ips,
     bypassHdr : bypassHdrs, authOk : authOks, body : bodies,
     paramsOk : paramsOks, str : strs, points : pointss,
     shouldCount : shouldCounts, reset : resets]

Requests ==
    ReqSet({"io.example.noLimit"}, {"GET"}, {FALSE}, Ips \cup {None},
           {None, "bypass"}, {TRUE}, {None}, {TRUE}, {None}, {0}, {FALSE}, {FALSE})
    \cup ReqSet({"io.example.noLimit"}, {"GET"}, {FALSE}, Ips,
           {None}, {TRUE}, {None}, {TRUE}, {None}, {0}, {FALSE}, {TRUE})
    \cup ReqSet({"io.example.noLimit"}, {"POST"}, {FALSE}, {"ip1"},
           {None}, {TRUE}, {None}, {TRUE}, {None}, {0}, {FALSE}, {FALSE})
    \cup ReqSet({"io.example.routeLimit"}, {"GET"}, {FALSE}, Ips,
           {None}, {TRUE}, {None}, {TRUE}, {"a", "b"}, {0}, {FALSE}, {FALSE})
    \cup ReqSet({"io.example.routeLimit"}, {"GET"}, {FALSE}, {"ip1"},
           {None}, {TRUE}, {None}, {TRUE}, {"a", "b"}, {0}, {FALSE}, {TRUE})
    \cup ReqSet({"io.example.routeLimit"}, {"GET"}, {FALSE}, {"ip1"},
           {None}, {TRUE}, {None}, {FALSE}, {None}, {0}, {FALSE}, {FALSE})
    \cup ReqSet({"io.example.sharedLimitOne"}, {"GET"},
           {FALSE}, Ips, {None}, {TRUE}, {None}, {TRUE}, {None}, 0..2, {FALSE}, {FALSE})
    \cup ReqSet({"io.example.sharedLimitTwo"}, {"GET"},
           {FALSE}, {"ip1"}, {None}, {TRUE}, {None}, {TRUE}, {None}, 0..2, {FALSE}, {FALSE})
    \cup ReqSet({"io.example.sharedLimitOne", "io.example.sharedLimitTwo"}, {"GET"},
           {FALSE}, {"ip1"}, {None}, {TRUE}, {None}, {FALSE}, {None}, {0}, {FALSE}, {FALSE})
    \cup ReqSet({"io.example.toggleLimit"}, {"GET"}, {FALSE}, Ips,
           {None}, {TRUE}, {None}, {TRUE}, {None}, {0}, BOOLEAN, {FALSE})
    \cup ReqSet({"io.example.toggleLimit"}, {"GET"}, {FALSE}, {"ip1"},
           {"bypass"}, {TRUE}, {None}, {TRUE}, {None}, {0}, {TRUE}, {FALSE})
    \cup ReqSet({"io.example.authTest"}, {"POST"}, {FALSE}, Ips,
           {None}, BOOLEAN, {"valid", "invalid"}, {TRUE}, {None}, {0}, {FALSE}, {FALSE})
    \cup ReqSet({"io.example.authTest"}, {"GET"}, {FALSE}, {"ip1"},
           {None}, BOOLEAN, {None}, {TRUE}, {None}, {0}, {FALSE}, {FALSE})
    \cup ReqSet({"io.example.nonExistent", "io.example.doesNotExist"}, {"GET"},
           {FALSE}, Ips, {None}, {TRUE}, {None}, {TRUE}, {None}, {0}, {FALSE}, {FALSE})
    \cup ReqSet({"io.example.nonExistent"}, {"POST"},
           {FALSE}, {"ip1"}, {None}, {TRUE}, {None}, {TRUE}, {None}, {0}, {FALSE}, {FALSE})
    \cup ReqSet({"io.example.streamOne", "io.example.doesNotExist"}, {"GET"},
           BOOLEAN, {"ip1"}, {None}, {TRUE}, {None}, {TRUE}, {None}, {0}, {FALSE}, {FALSE})

NoReq ==
    [nsid |-> None, method |-> None, upgrade |-> FALSE, ip |-> None,
     bypassHdr |-> None, authOk |-> FALSE, body |-> None, paramsOk |-> FALSE,
     str |-> None, points |-> 0, shouldCount |-> FALSE, reset |-> FALSE]

\* ctx.params: {} in the catch-all, the decoded and validated parameters in
\* the route handler
NoParams == [present |-> FALSE, str |-> None, points |-> 0, shouldCount |-> FALSE]

decodeQueryParams(req) ==
    [present |-> TRUE, str |-> req.str, points |-> req.points,
     shouldCount |-> req.shouldCount]

\* --------------------------------------------------- RateLimiter (one limiter)
\* defaultKey: forwarded, else real ip, else null
defaultKey(ctx) == ctx.req.ip

defaultPoints == 1

\* the calcKey / calcPoints functions of the configuration
CalcKeyFn(fn, ctx) ==
    IF fn = "str" THEN ctx.params.str ELSE defaultKey(ctx)

CalcPointsFn(fn, ctx) ==
    IF fn = "points" THEN ctx.params.points
    ELSE IF fn = "shouldCount" THEN (IF ctx.params.shouldCount THEN 1 ELSE 0)
    ELSE defaultPoints

\* this.calcKey = opts.calcKey ?? defaultKey of the constructor, overridden by
\* the calcKey of the call
KeyOf(l, opts, ctx) ==
    IF opts.calcKey # None THEN CalcKeyFn(opts.calcKey, ctx)
    ELSE CalcKeyFn(LimiterOpts(l).calcKey, ctx)

PointsOf(l, opts, ctx) ==
    IF opts.calcPoints # None THEN CalcPointsFn(opts.calcPoints, ctx)
    ELSE CalcPointsFn(LimiterOpts(l).calcPoints, ctx)

NullRes == [kind |-> "null", limit |-> 0, remainingPoints |-> 0, consumedPoints |-> 0]

\* formatLimiterStatus over the RateLimiterRes of the store: the store adds
\* the points to the key's counter and rejects when the counter passes the
\* limit; remainingPoints never goes below 0
formatLimiterStatus(limiter, consumed) ==
    [kind |-> IF consumed > limiter.points THEN "exceeded" ELSE "status",
     limit |-> limiter.points,
     remainingPoints |-> IF consumed > limiter.points THEN 0
                         ELSE limiter.points - consumed,
     consumedPoints |-> consumed]

\* the backing store of the limiters is out of reach: every call of it throws
VARIABLE storeDown

\* the limiters are built by RateLimiter.redis on one store client, where a
\* bucket is named by keyPrefix and key; else by RateLimiter.memory, each
\* with a store of its own
VARIABLE remoteStore

\* the limiter under whose name the store keeps the buckets of a limiter
bucket(l) ==
    IF remoteStore
    THEN CHOOSE b \in Limiters : LimiterOpts(b).keyPrefix = LimiterOpts(l).keyPrefix
    ELSE l

\* an error that is no RateLimiterRes, rethrown by consume
ThrownRes == [kind |-> "error", limit |-> 0, remainingPoints |-> 0, consumedPoints |-> 0]

\* try { this.limiter.consume(key, points) } catch: on the store st.  A
\* rejection with a RateLimiterRes is the exceeded status; any other error is
\* rethrown when this.failClosed is set and logged and answered null otherwise
limiterConsume(l, limiter, key, points, st) ==
    IF storeDown
    THEN [store |-> st, res |-> IF limiter.failClosed THEN ThrownRes ELSE NullRes]
    ELSE [store |-> [st EXCEPT ![bucket(l)][key] = st[bucket(l)][key] + points],
          res |-> formatLimiterStatus(limiter, st[bucket(l)][key] + points)]

\* a consume that hands any number of points to the store
consumeKey_AnyPoints(l, limiter, key, points, ctx, st) ==
    IF key = None THEN [store |-> st, res |-> NullRes]
    ELSE limiterConsume(l, limiter, key, points, st)

\* the body of RateLimiter.consume once the key and the points are computed
consumeKey(l, limiter, key, points, ctx, st) ==
    IF limiter.bypassSecret # None /\ ctx.req.bypassHdr = limiter.bypassSecret
    THEN [store |-> st, res |-> NullRes]
    ELSE IF ctx.req.ip # None /\ ctx.req.ip \in limiter.bypassIps
    THEN [store |-> st, res |-> NullRes]
    ELSE IF key = None
    THEN [store |-> st, res |-> NullRes]
    ELSE IF points < 1
    THEN [store |-> st, res |-> NullRes]
    ELSE limiterConsume(l, limiter, key, points, st)

\* a consume that ignores the calcKey / calcPoints passed with the call
consume_IgnoresCallOpts(l, opts, ctx, st) ==
    consumeKey(l, RateLimiter(LimiterOpts(l)),
               KeyOf(l, [opts EXCEPT !.calcKey = None, !.calcPoints = None], ctx),
               PointsOf(l, [opts EXCEPT !.calcKey = None, !.calcPoints = None], ctx),
               ctx, st)

\* RateLimiter.consume(ctx, opts) on the store st: the store after the call
\* and the result (null, a status, or a RateLimitExceededError)
consume(l, opts, ctx, st) ==
    consumeKey(l, RateLimiter(LimiterOpts(l)), KeyOf(l, opts, ctx), PointsOf(l, opts, ctx),
               ctx, st)

\* RateLimiter.reset(ctx, opts): deletes the key
\* a reset that takes the key from defaultKey whatever calcKey the call has
reset_DefaultKey(l, opts, ctx, st) ==
    IF defaultKey(ctx) = None THEN st ELSE [st EXCEPT ![bucket(l)][defaultKey(ctx)] = 0]

resetKey(l, key, st) ==
    IF key = None THEN st ELSE [st EXCEPT ![bucket(l)][key] = 0]

reset(l, opts, ctx, st) == resetKey(l, KeyOf(l, opts, ctx), st)

\* --------------------------------------------------- several limiters at once
\* a getTightestLimit that answers the first result that is not null
getTightestLimit_First(resps) ==
    IF \A i \in DOMAIN resps : resps[i].kind = "null" THEN NullRes
    ELSE resps[CHOOSE i \in DOMAIN resps :
                  resps[i].kind # "null" /\ \A j \in 1..(i - 1) : resps[j].kind = "null"]

\* getTightestLimit: the first exceeded result, else the status with the
\* least remainingPoints (the earliest one on a tie), else null
RECURSIVE tightestFrom(_, _)
tightestFrom(resps, lowest) ==
    IF resps = <<>> THEN lowest
    ELSE IF Head(resps).kind = "exceeded" THEN Head(resps)
    ELSE tightestFrom(Tail(resps),
             IF /\ Head(resps).kind # "null"
                /\ (lowest.kind = "null"
                      \/ Head(resps).remainingPoints < lowest.remainingPoints)
             THEN Head(resps) ELSE lowest)

getTightestLimit(resps) == tightestFrom(resps, NullRes)

\* Promise.all(fns.map((fn) => fn(ctx))): every limiter of the list consumes,
\* in list order
RECURSIVE consumeAll(_, _, _)
prependRes(res, rest) ==
    [store |-> rest.store, results |-> <<res>> \o rest.results]

consumeRest(fns, ctx, first) ==
    prependRes(first.res, consumeAll(fns, ctx, first.store))

consumeAll(fns, ctx, st) ==
    IF fns = <<>> THEN [store |-> st, results |-> <<>>]
    ELSE consumeRest(Tail(fns), ctx, consume(Head(fns).limiter, Head(fns), ctx, st))

\* setResHeaders for the tightest result: headers stay as they are when it
\* is null
setResHeaders(all, tightestLimit, headers) ==
    [store |-> all.store,
     results |-> all.results,
     res |-> tightestLimit,
     headers |-> IF tightestLimit.kind = "null" THEN headers
                 ELSE [limit |-> tightestLimit.limit,
                       remaining |-> tightestLimit.remainingPoints]]

\* Promise.all rejects with the error of a consume that threw; else the
\* tightest of the results
consumeResults(all, headers) ==
    IF \E i \in DOMAIN all.results : all.results[i].kind = "error"
    THEN [store |-> all.store, results |-> all.results, res |-> ThrownRes,
          headers |-> headers]
    ELSE setResHeaders(all, getTightestLimit(all.results), headers)

\* consumeMany: the store after the call, the results, the tightest result,
\* and the rate-limit headers the call leaves
consumeMany(ctx, fns, st, headers) == consumeResults(consumeAll(fns, ctx, st), headers)

\* this.limiter.delete(key) throws when the store is out of reach, and reset
\* rethrows it
resetThrows(ctx, fns) ==
    storeDown /\ \E i \in DOMAIN fns : KeyOf(fns[i].limiter, fns[i], ctx) # None

RECURSIVE resetMany(_, _, _)
resetMany(ctx, fns, st) ==
    IF fns = <<>> THEN st
    ELSE resetMany(ctx, Tail(fns), reset(Head(fns).limiter, Head(fns), ctx, st))

\* setupRouteRateLimits: the limiters of a route.  The global ones, unless
\* the route declares a rateLimit, which replaces the list
RECURSIVE routeLimitsFrom(_, _, _)
routeLimitsFrom(nsid, limits, i) ==
    IF i > Len(limits) THEN <<>>
    ELSE (IF limits[i].shared
          THEN (IF limits[i].name \notin DOMAIN sharedRateLimiters THEN <<>>
                ELSE <<[limiter |-> sharedRateLimiters[limits[i].name],
                        calcKey |-> limits[i].calcKey,
                        calcPoints |-> limits[i].calcPoints]>>)
          ELSE <<[limiter |-> InlineId(nsid, i),
                  calcKey |-> limits[i].calcKey,
                  calcPoints |-> limits[i].calcPoints]>>)
         \o routeLimitsFrom(nsid, limits, i + 1)

globalFns ==
    [i \in DOMAIN globalRateLimiters |->
        [limiter |-> globalRateLimiters[i], calcKey |-> None, calcPoints |-> None]]

routeRateLimiters(nsid) ==
    IF MethodConfig(nsid).rateLimit = <<>> THEN globalFns
    ELSE routeLimitsFrom(nsid, MethodConfig(nsid).rateLimit, 1)

\* ------------------------------------------------------------------ errors
\* XRPCError.statusCode of the error kinds the dispatcher raises
statusCode(kind) ==
    CASE kind = "InvalidRequest" -> 400
      [] kind = "AuthenticationRequired" -> 401
      [] kind = "Forbidden" -> 403
      [] kind = "RateLimitExceeded" -> 429
      [] kind = "InternalServerError" -> 500
      [] kind = "MethodNotImplemented" -> 501

\* createErrorMiddleware: the response for a thrown XRPCError
createErrorMiddleware(kind) == [status |-> statusCode(kind), error |-> kind]

NoResp == [status |-> 0, error |-> None]

NoHeaders == [limit |-> -1, remaining |-> -1]

\* ------------------------------------------------------------- the Hono app
\* a route whose body middleware is registered before the auth middleware
addRoute_BodyBeforeAuth(nsid) ==
    <<"locals">>
    \o (IF LexDef(nsid) = "procedure" THEN <<"body">> ELSE <<>>)
    \o (IF MethodConfig(nsid).auth THEN <<"auth">> ELSE <<>>)
    \o <<"handler">>

\* the middleware addRoute registers for a method, in order
addRoute(nsid) ==
    <<"locals">>
    \o (IF MethodConfig(nsid).auth THEN <<"auth">> ELSE <<>>)
    \o (IF LexDef(nsid) = "procedure" THEN <<"body">> ELSE <<>>)
    \o <<"handler">>

\* the verb addRoute registers the method under
RouteVerb(nsid) == IF LexDef(nsid) = "procedure" THEN "POST" ELSE "GET"

\* an app whose routes are registered before the first catch-all
AppChain_RoutesFirst(r) ==
    (IF r.nsid \in Methods /\ RouteVerb(r.nsid) = r.method
     THEN addRoute(r.nsid) ELSE <<>>)
    \o <<"catchall", "catchall">>

\* the handlers of server.app that match a request, in registration order:
\* the catch-all of the constructor, the routes added by createServer, and
\* the catch-all createServer registers again
AppChain(r) ==
    <<"catchall">>
    \o (IF r.nsid \in Methods /\ RouteVerb(r.nsid) = r.method
        THEN addRoute(r.nsid) ELSE <<>>)
    \o <<"catchall">>

\* options.validateResponse
validateResponse == TRUE

\* what a handler may return: a success output that satisfies the declared
\* output, one that violates it, or an error result
HandlerOutputs == {"success", "invalid", "error"}

\* ------------------------------------------------------------------- state
VARIABLES
    store,          \* consumed points of every limiter, by key
    requested,      \* history: points asked of every limiter and key since
                    \* the key's bucket was last created
    nreq,           \* requests received so far
    phase,          \* "idle", "run" (in the middleware chain), "done"
    req,            \* the request in flight
    chain,          \* the handlers matching it
    pc,             \* position in chain
    locals,         \* RequestLocals.auth
    validatedInput, \* c.get("validatedInput")
    headers,        \* the RateLimit-* headers written by setResHeaders
    resp,           \* the response
    stages,         \* history: the stages the request went through
    rlLog,          \* history: every limiter evaluation of the request
    handlerCalls,   \* history: invocations of the method handler
    arrival,        \* history: the store when the request arrived
    resetKeys       \* history: the <<limiter, key>> reset and not consumed since

\* ------------------------------------------------------ the stream server
\* the longest list of items a subscription handler is given to yield
MaxFrames == 3

\* the histories of a connection keep this many frames; a producer that ends
\* yields fewer
MaxHistory == MaxFrames + 2

CloseCode == [Normal |-> 1000, Abnormal |-> 1006, Policy |-> 1008]

FrameType == [Message |-> 1, Error |-> -1]

MessageFrame(body) ==
    [op |-> FrameType.Message, body |-> body, error |-> None, message |-> None]

ErrorFrame(error, message) ==
    [op |-> FrameType.Error, body |-> None, error |-> error, message |-> message]

\* op 0: no frame, or an item of a handler that is a plain object and no Frame
NoFrame == [op |-> 0, body |-> None, error |-> None, message |-> None]

PlainItem(body) == [op |-> 0, body |-> body, error |-> None, message |-> None]

Frames == {MessageFrame("m1"), MessageFrame("m2"), ErrorFrame("BadOops", None)}

HandlerItems == Frames \cup {PlainItem("o1")}

SeqsUpTo(S, n) == UNION {[1..k -> S] : k \in 0..n}

\* how the code given to a producer ends: it returns, it throws an XRPCError,
\* it throws another Error, or it never ends (while (true))
Endings == {"return", "throwXrpc", "throwError", "loop"}

\* XRPCError.fromError(err).payload of what a subscription handler throws
fromError(ending) ==
    IF ending = "throwXrpc"
    THEN [error |-> "InvalidRequest", message |-> "bad request"]
    ELSE [error |-> "InternalServerError", message |-> "Internal Server Error"]

\* the handlers a connection may be given: XrpcStreamServer built on a
\* generator of Frames, or the subscription generator of Server.addSubscription
\* around an auth verifier, the lexicon's params and a handler's items
ProducerSet(kinds, authOks, paramsOks, itemSet, endings) ==
    {p \in [kind : kinds, authOk : authOks, paramsOk : paramsOks, items : SeqsUpTo(itemSet, MaxFrames), ending : endings] : p.ending = "loop" => p.items # <<>>}

Producers ==
    ProducerSet({"raw"}, {TRUE}, {TRUE}, Frames, {"return", "throwError", "loop"})
    \cup ProducerSet({"subscription"}, BOOLEAN, BOOLEAN, HandlerItems, Endings)

NoProducer ==
    [kind |-> "none", authOk |-> TRUE, paramsOk |-> TRUE, items |-> <<>>, ending |-> "return"]

\* an item of a subscription handler becomes a frame
toFrame(item) == IF item.op # 0 THEN item ELSE MessageFrame(item.body)

\* a subscription generator that starts the handler without validating the
\* parameters
addSubscription_NoParamsCheck(p) ==
    IF ~p.authOk
    THEN [frames |-> <<ErrorFrame("AuthenticationRequired", "Authentication Required")>>,
          ending |-> "return", started |-> FALSE]
    ELSE [frames |-> [i \in DOMAIN p.items |-> toFrame(p.items[i])]
                     \o (IF p.ending \in {"throwXrpc", "throwError"}
                         THEN <<ErrorFrame(fromError(p.ending).error, fromError(p.ending).message)>>
                         ELSE <<>>),
          ending |-> IF p.ending = "loop" THEN "loop" ELSE "return",
          started |-> TRUE]

\* the generator addSubscription hands to XrpcStreamServer: the frames it
\* yields in order, how it ends, and whether config.handler is called
addSubscription(p) ==
    IF ~p.authOk
    THEN [frames |-> <<ErrorFrame("AuthenticationRequired", "Authentication Required")>>,
          ending |-> "return", started |-> FALSE]
    ELSE IF ~p.paramsOk
    THEN [frames |-> <<ErrorFrame("InvalidRequest", "Error: Params must have the property")>>,
          ending |-> "return", started |-> FALSE]
    ELSE [frames |-> [i \in DOMAIN p.items |-> toFrame(p.items[i])]
                     \o (IF p.ending \in {"throwXrpc", "throwError"}
                         THEN <<ErrorFrame(fromError(p.ending).error, fromError(p.ending).message)>>
                         ELSE <<>>),
          ending |-> IF p.ending = "loop" THEN "loop" ELSE "return",
          started |-> TRUE]

\* handler(req, ac.signal, socket, this): the producer of a connection
handler(p) ==
    IF p.kind = "subscription" THEN addSubscription(p)
    ELSE [frames |-> p.items,
          ending |-> IF p.ending = "throwError" THEN "throw" ELSE p.ending,
          started |-> TRUE]

\* a loop body that goes on after an Error frame
forAwaitBody_NoDisconnect(frame, open, throws) ==
    IF ~open /\ throws
    THEN [sent |-> FALSE, exit |-> "error", code |-> CloseCode.Abnormal, reason |-> None]
    ELSE [sent |-> TRUE, exit |-> "continue", code |-> 0, reason |-> None]

\* a loop body that disconnects after an Error frame with the normal code
forAwaitBody_NormalClose(frame, open, throws) ==
    IF ~open /\ throws
    THEN [sent |-> FALSE, exit |-> "error", code |-> CloseCode.Abnormal, reason |-> None]
    ELSE IF frame.op = FrameType.Error
    THEN [sent |-> TRUE, exit |-> "disconnect", code |-> CloseCode.Normal, reason |-> None]
    ELSE [sent |-> TRUE, exit |-> "continue", code |-> 0, reason |-> None]

\* the body of the for await loop for one frame: socket.send, which on a
\* socket that is no longer open either drops the frame or throws, then
\* DisconnectError(CloseCode.Policy, frame.body.error) after an Error frame
forAwaitBody(frame, open, throws) ==
    IF ~open /\ throws
    THEN [sent |-> FALSE, exit |-> "error", code |-> CloseCode.Abnormal, reason |-> None]
    ELSE IF frame.op = FrameType.Error
    THEN [sent |-> TRUE, exit |-> "disconnect", code |-> CloseCode.Policy, reason |-> frame.error]
    ELSE [sent |-> TRUE, exit |-> "continue", code |-> 0, reason |-> None]

\* iterator.return() of an async generator: one suspended at a yield
\* completes, one that is running completes at its next yield
generatorReturn(g) ==
    IF g = "suspendedYield" THEN "completed" ELSE g

VARIABLES
    producer,           \* the handler of the connection
    gen,                \* the generator: "none", "running", "suspendedYield", "completed"
    pos,                \* frames of the producer yielded so far (of the current round)
    returnQueued,       \* return() was called while the generator was running
    returnCalls,        \* history: calls of iterator.return
    aborted,            \* ac.signal.aborted
    socket,             \* "none", "open", "closed"
    closedBy,           \* who closed the socket first, with what code and reason
    oncloseFired,       \* socket.onclose has run
    loop,               \* the for await loop: "idle", "awaiting", "body", "ended"
    result,             \* what next() resolved to: "frame", "done", "thrown"
    frame,              \* the frame last yielded
    yielded,            \* history: the frames the producer yielded
    sent,               \* history: the frames socket.send took
    closeCalls,         \* history: the calls of socket.close
    handlerStarted,     \* history: config.handler was called
    stepsAfterClose,    \* history: resumptions of the producer after onclose
    resumedAfterError   \* history: the producer ran on after an Error frame

streamVars ==
    <<producer, gen, pos, returnQueued, returnCalls, aborted, socket, closedBy,
      oncloseFired, loop, result, frame, yielded, sent, closeCalls, handlerStarted,
      stepsAfterClose, resumedAfterError>>

NotClosed == [by |-> None, code |-> 0, reason |-> None]

StreamInit ==
    /\ producer = NoProducer
    /\ gen = "none"
    /\ pos = 0
    /\ returnQueued = FALSE
    /\ returnCalls = 0
    /\ aborted = FALSE
    /\ socket = "none"
    /\ closedBy = NotClosed
    /\ oncloseFired = FALSE
    /\ loop = "idle"
    /\ result = None
    /\ frame = NoFrame
    /\ yielded = <<>>
    /\ sent = <<>>
    /\ closeCalls = <<>>
    /\ handlerStarted = FALSE
    /\ stepsAfterClose = 0
    /\ resumedAfterError = FALSE

\* ------------------------------------------------ the WebSocketKeepAlive client
\* connections one iterator may open
MaxConnections == 2

\* messages a socket may deliver over all connections
MaxMessages == 2

\* what a socket delivers: binary frames (Uint8Array) and the text "pong"
BinaryFrames == {"f1", "f2"}

Messages == BinaryFrames \cup {"pong"}

networkErrorCodes ==
    {"EWSABNORMALCLOSE", "ECONNRESET", "ECONNREFUSED", "ECONNABORTED", "EPIPE",
     "ETIMEDOUT", "ECANCELED"}

\* the errors an error event may carry, by their code: one of the network
\* codes, the code of another error, and an error without code
ErrorCodes == {"ECONNRESET", "EOTHER", None}

NoError == "no error"

isReconnectable(err) == err # None /\ err \in networkErrorCodes

\* the close codes a close event may carry
CloseEventCodes == {CloseCode.Normal, CloseCode.Abnormal}

\* opts.getUrl(): the URL is computed from what getParams returns at that
\* moment, here a cursor: the number of frames the consumer has got
getUrl(consumed) == [method |-> "io.example.streamOne", cursor |-> Len(consumed)]

\* ws.onX = f, in the order the code runs them: a later assignment to the
\* same property replaces the earlier handler
RECURSIVE assign(_, _)
assign(h, assignments) ==
    IF assignments = <<>> THEN h
    ELSE assign([h EXCEPT ![Head(assignments)[1]] = Head(assignments)[2]], Tail(assignments))

NoHandlers == [onopen |-> None, onmessage |-> None, onerror |-> None, onclose |-> None]

\* the assignments of one turn of the iterator's outer loop, before its
\* first await
iteratorHandlers ==
    <<  <<"onopen", "startHeartbeat">>,
        <<"onclose", "abortIfAbnormal">>,
        <<"onmessage", "pushToQueue">>,
        <<"onerror", "setError">>,
        <<"onclose", "setDone">>  >>

\* the assignments of startHeartbeat, which onopen calls
heartbeatHandlers ==
    <<  <<"onmessage", "pongIsAlive">>,
        <<"onclose", "clearInterval">>  >>

VARIABLES
    ws,                 \* this.ws: "none", "connecting", "open", "closing", "closed"
    wsHandlers,         \* the handlers of this.ws
    iter,               \* the iterator: "connect", "poll", "returned", "threw"
    messageQueue,       \* messageQueue of the connection
    error,              \* error of the connection, by its code
    done,               \* done of the connection
    acReason,           \* ac.signal: NoError, or the code of the abort reason
    signal,             \* opts.signal.aborted
    abortedAt,          \* history: the connections made when opts.signal aborted, -1 before
    initialSetup,       \* this.initialSetup
    reconnects,         \* this.reconnects, -1 for null
    isAlive,            \* isAlive of the heartbeat
    heartbeatInterval,  \* the heartbeat's interval is set
    turn,               \* parity of the turns the loop awaited a timer
    urls,               \* history: the URL of each connection
    delivered,          \* history: binary frames delivered on open connections
    handed,             \* history: frames yielded to the consumer
    closeEvents,        \* history: close events, with the connection, whether it had
                        \* opened and whether an error event came before
    reconnectErrors,    \* history: calls of opts.onReconnectError, with the connection
    thrown              \* history: the code of the error thrown to the consumer

clientVars ==
    <<ws, wsHandlers, iter, messageQueue, error, done, acReason, signal, abortedAt,
      initialSetup, reconnects, isAlive, heartbeatInterval, turn, urls, delivered,
      handed, closeEvents, reconnectErrors, thrown>>

ClientInit ==
    /\ ws = "none"
    /\ wsHandlers = NoHandlers
    /\ iter = "connect"
    /\ messageQueue = <<>>
    /\ error = NoError
    /\ done = FALSE
    /\ acReason = NoError
    /\ signal = FALSE
    /\ abortedAt = -1
    /\ initialSetup = TRUE
    /\ reconnects = -1
    /\ isAlive = FALSE
    /\ heartbeatInterval = FALSE
    /\ turn = 0
    /\ urls = <<>>
    /\ delivered = <<>>
    /\ handed = <<>>
    /\ closeEvents = <<>>
    /\ reconnectErrors = <<>>
    /\ thrown = NoError

\* ------------------------------------------------- functions of the server
\* The functions the handlers are built from, applied to one input each.

VARIABLES
    arg,                \* the argument the function is applied to
    ret,                \* what the function returned or threw
    called              \* the function has been applied

callVars == <<arg, ret, called>>

Undefined == "undefined"

NoInput == [kind |-> None]

NoOutput == [kind |-> None]

CallInit ==
    /\ arg = NoInput
    /\ ret = NoOutput
    /\ called = FALSE

\* ---- error responses

\* ResponseType and ResponseTypeStrings of @atproto/xrpc
ResponseType ==
    [Unknown |-> 1, InvalidResponse |-> 2, Success |-> 200, InvalidRequest |-> 400,
     AuthenticationRequired |-> 401, Forbidden |-> 403, XRPCNotSupported |-> 404,
     NotAcceptable |-> 406, PayloadTooLarge |-> 413, UnsupportedMediaType |-> 415,
     RateLimitExceeded |-> 429, InternalServerError |-> 500,
     MethodNotImplemented |-> 501, UpstreamFailure |-> 502,
     NotEnoughResources |-> 503, UpstreamTimeout |-> 504]

ResponseTypeStrings ==
    [Unknown |-> "Unknown", InvalidResponse |-> "Invalid Response",
     Success |-> "Success", InvalidRequest |-> "Invalid Request",
     AuthenticationRequired |-> "Authentication Required", Forbidden |-> "Forbidden",
     XRPCNotSupported |-> "XRPC Not Supported", NotAcceptable |-> "Not Acceptable",
     PayloadTooLarge |-> "Payload Too Large",
     UnsupportedMediaType |-> "Unsupported Media Type",
     RateLimitExceeded |-> "Rate Limit Exceeded",
     InternalServerError |-> "Internal Server Error",
     MethodNotImplemented |-> "Method Not Implemented",
     UpstreamFailure |-> "Upstream Failure",
     NotEnoughResources |-> "Not Enough Resources",
     UpstreamTimeout |-> "Upstream Timeout"]

TypeNames(type) == {n \in DOMAIN ResponseType : ResponseType[n] = type}

\* ResponseType[type]: the name of the enum member, undefined for a number
\* that is no member
typeName(type) ==
    IF TypeNames(type) = {} THEN Undefined ELSE CHOOSE n \in TypeNames(type) : TRUE

\* ResponseTypeStrings[type]
typeStr(type) ==
    IF TypeNames(type) = {} THEN Undefined ELSE ResponseTypeStrings[typeName(type)]

httpResponseCodeToName(type) == typeName(type)

httpResponseCodeToString(type) == typeStr(type)

\* new XRPCError(type, errorMessage, customErrorName)
XRPCError(type, errorMessage, customErrorName) ==
    [type |-> type, errorMessage |-> errorMessage, customErrorName |-> customErrorName]

InternalServerError(errorMessage, customErrorName) ==
    XRPCError(ResponseType.InternalServerError, errorMessage, customErrorName)

\* a payload that hides the message of every error answered with 500
XRPCError_payloadByStatus(e) ==
    [error |-> IF e.customErrorName # Undefined THEN e.customErrorName
               ELSE IF typeName(e.type) # Undefined THEN typeName(e.type)
               ELSE "Unknown",
     message |-> IF e.type < 400 \/ e.type >= 600 \/ e.type = ResponseType.InternalServerError
                 THEN "Internal Server Error"
                 ELSE IF e.errorMessage \notin {Undefined, ""} THEN e.errorMessage
                 ELSE IF typeStr(e.type) # Undefined THEN typeStr(e.type)
                 ELSE "Unknown Error"]

\* get statusCode
XRPCError_statusCode(e) ==
    IF e.type < 400 \/ e.type >= 600 THEN 500 ELSE e.type

\* get payload
XRPCError_payload(e) ==
    [error |-> IF e.customErrorName # Undefined THEN e.customErrorName
               ELSE IF typeName(e.type) # Undefined THEN typeName(e.type)
               ELSE "Unknown",
     message |-> IF e.type = ResponseType.InternalServerError
                 THEN (IF typeStr(e.type) # Undefined THEN typeStr(e.type)
                       ELSE "Internal Server Error")
                 ELSE IF e.errorMessage \notin {Undefined, ""} THEN e.errorMessage
                 ELSE IF typeStr(e.type) # Undefined THEN typeStr(e.type)
                 ELSE "Unknown Error"]

mapFromClientError(cause) ==
    IF cause.status \in {ResponseType.InvalidResponse, ResponseType.Unknown}
    THEN [error |-> httpResponseCodeToName(ResponseType.InternalServerError),
          message |-> httpResponseCodeToString(ResponseType.InternalServerError),
          type |-> ResponseType.InternalServerError]
    ELSE [error |-> cause.error, message |-> cause.message, type |-> cause.status]

\* what is thrown in a handler or returned by it as an error: an XRPCError,
\* the XRPCError of the client library, an HttpError, a handler error-result,
\* another Error, or a value that is no Error
CauseKinds == {"XRPCError", "XRPCClientError", "HttpError", "HandlerError", "Error", "value"}

Cause(kind, status, message, name) ==
    [kind |-> kind, status |-> status, message |-> message, error |-> name]

\* XRPCError.fromError and fromHandlerError
XRPCError_fromError(cause) ==
    CASE cause.kind = "XRPCError" -> XRPCError(cause.status, cause.message, cause.error)
      [] cause.kind = "XRPCClientError" ->
            XRPCError(mapFromClientError(cause).type, mapFromClientError(cause).message,
                      mapFromClientError(cause).error)
      [] cause.kind = "HttpError" -> XRPCError(cause.status, cause.message, cause.error)
      [] cause.kind = "HandlerError" -> XRPCError(cause.status, cause.message, cause.error)
      [] cause.kind = "Error" -> InternalServerError(cause.message, Undefined)
      [] OTHER -> InternalServerError("Unexpected internal server error", Undefined)

\* the response of the error middleware, with the default errorParser
errorResponse(cause) ==
    [status |-> XRPCError_statusCode(XRPCError_fromError(cause)),
     body |-> XRPCError_payload(XRPCError_fromError(cause))]

\* declared statuses: members of ResponseType in and out of [400, 600), and
\* numbers that are no member, around both ends of the range
ErrorStatuses == {1, 2, 200, 399, 400, 401, 499, 500, 502, 599, 600}

ErrorMessages == {Undefined, "", "secret one", "secret two"}

ErrorNames == {Undefined, "Foo"}

\* an HttpError of http-errors has a 4xx or 5xx status and a name; an Error
\* has a message; getters of a value that is no Error are not read
ErrorCauses ==
    {c \in {Cause(k, st, m, e) : k \in CauseKinds, st \in ErrorStatuses, m \in ErrorMessages, e \in ErrorNames} :
        /\ c.kind = "HttpError" => (c.status >= 400 /\ c.status < 600 /\ c.error # Undefined)
        /\ c.kind = "Error" => (c.status = 500 /\ c.error = Undefined)
        /\ c.kind = "value" => (c.status = 500 /\ c.error = Undefined /\ c.message = Undefined)}

\* ---- the response of a method handler

\* def.output of the method: none, a JSON output with a schema, an output of
\* any encoding, a text output
DefOutput(declared, encoding, schema) ==
    [declared |-> declared, encoding |-> encoding, schema |-> schema]

DefOutputs ==
    {DefOutput(FALSE, Undefined, FALSE), DefOutput(TRUE, "application/json", TRUE),
     DefOutput(TRUE, "*/*", FALSE), DefOutput(TRUE, "text/plain", FALSE)}

\* what the handler returned: nothing, a pipe-through stream or buffer, an
\* error-result, or a success output with its encoding, whether it has a
\* body, whether the body satisfies the output schema of the method, and
\* whether the object has the shape of a HandlerSuccess
HandlerOutput(kind, body, encoding, schemaOk, shapeOk) ==
    [kind |-> kind, body |-> body, encoding |-> encoding, schemaOk |-> schemaOk,
     shapeOk |-> shapeOk]

OutputEncodings == {"application/json", "json", "text/plain"}

SuccessOutputs ==
    {HandlerOutput("success", b, e, ok, sh) :
        b \in BOOLEAN, e \in OutputEncodings, ok \in BOOLEAN, sh \in BOOLEAN}

OtherOutputs ==
    {HandlerOutput(k, FALSE, Undefined, TRUE, TRUE) : k \in {"void", "stream", "buffer", "error"}}

\* options.validateResponse: not given, true or false
ValidateResponseOpts == {Undefined, "true", "false"}

HandlerResults ==
    [validateResponse : ValidateResponseOpts, def : DefOutputs,
     output : SuccessOutputs \cup OtherOutputs]

isValidEncoding(expected, actual) ==
    \/ expected = "*/*"
    \/ expected = actual
    \/ expected = "application/json" /\ actual = "json"

\* a validateOutput that does not compare the encodings
validateOutput_AnyEncoding(def, out) ==
    IF out.kind # "void" /\ ~out.shapeOk THEN Cause("Error", 500, "ZodError", Undefined)
    ELSE IF out.body /\ ~def.declared
    THEN Cause("XRPCError", 500, "A response body was provided when none was expected", Undefined)
    ELSE IF ~out.body /\ def.declared
    THEN Cause("XRPCError", 500, "A response body is expected but none was provided", Undefined)
    ELSE IF def.schema /\ ~out.schemaOk
    THEN Cause("XRPCError", 500, "assertValidXrpcOutput", Undefined)
    ELSE NoInput

\* validateOutput: the error it throws, NoInput when it returns
validateOutput(def, out) ==
    IF out.kind # "void" /\ ~out.shapeOk THEN Cause("Error", 500, "ZodError", Undefined)
    ELSE IF out.body /\ ~def.declared
    THEN Cause("XRPCError", 500, "A response body was provided when none was expected", Undefined)
    ELSE IF ~out.body /\ def.declared
    THEN Cause("XRPCError", 500, "A response body is expected but none was provided", Undefined)
    ELSE IF def.encoding # Undefined
            /\ (out.encoding = Undefined \/ ~isValidEncoding(def.encoding, out.encoding))
    THEN Cause("XRPCError", 500, "Invalid response encoding", Undefined)
    ELSE IF def.schema /\ ~out.schemaOk
    THEN Cause("XRPCError", 500, "assertValidXrpcOutput", Undefined)
    ELSE NoInput

\* the response to what the handler returned, and whether validateOutput
\* was called on it
Answer(status, body, validated) == [status |-> status, body |-> body, validated |-> validated]

\* validateResOutput?.(output), then the response the branch builds
validateResOutput(def, out, resBody) ==
    IF validateOutput(def, out) = NoInput
    THEN Answer(200, resBody, TRUE)
    ELSE Answer(errorResponse(validateOutput(def, out)).status,
                errorResponse(validateOutput(def, out)).body, TRUE)

\* createHandler, from the handler's return on
handlerResponse(h) ==
    CASE h.output.kind = "void" ->
            IF h.validateResponse = "false" THEN Answer(200, None, FALSE)
            ELSE validateResOutput(h.def, h.output, None)
      [] h.output.kind \in {"stream", "buffer"} -> Answer(200, h.output.kind, FALSE)
      [] h.output.kind = "error" ->
            Answer(errorResponse(Cause("HandlerError", 400, "handler error", "Foo")).status,
                   errorResponse(Cause("HandlerError", 400, "handler error", "Foo")).body,
                   FALSE)
      [] OTHER ->
            IF h.validateResponse = "false" THEN Answer(200, "body", FALSE)
            ELSE validateResOutput(h.def, h.output, "body")

\* ---- the body of a procedure request

MaxChain == 2

MaxSize == 3

blobLimit == 2

Formats == {"gzip", "deflate", "br"}

\* one compression of the body: the content-encoding the client names for
\* it, the format of the compressed data and their size in bytes
Layer(enc, fmt, size) == [enc |-> enc, fmt |-> fmt, size |-> size]

\* a client names the format it compressed with, or names "br" for data it
\* compressed with deflate
Layers ==
    {l \in {Layer(e, f, s) : e \in Formats, f \in Formats, s \in 1..MaxSize} :
        l.fmt = l.enc \/ (l.enc = "br" /\ l.fmt = "deflate")}

\* a byte array: raw bytes of the client (by their number), compressed by
\* the layers (the last compression first), followed by pad zero bytes
Bytes(layers, raw, pad) == [layers |-> layers, raw |-> raw, pad |-> pad]

length(b) == (IF b.layers = <<>> THEN b.raw ELSE Head(b.layers).size) + b.pad

Reversed(seq) == [i \in 1..Len(seq) |-> seq[Len(seq) + 1 - i]]

RECURSIVE spread(_)
\* the tokens with "identity" after each of them
spread(tokens) ==
    IF tokens = <<>> THEN <<>> ELSE <<Head(tokens), "identity">> \o spread(Tail(tokens))

\* the content-encoding header of a body: the encodings in the order the
\* client applied them, as Content-Encoding lists them
headerOf(layers, withIdentity) ==
    IF withIdentity
    THEN spread([i \in 1..Len(layers) |-> Reversed(layers)[i].enc])
    ELSE [i \in 1..Len(layers) |-> Reversed(layers)[i].enc]

\* a POST of a blob to a route whose def.input takes any encoding
BodyRequest(contentType, layers, raw, withIdentity, hasLength, limit) ==
    [contentType |-> contentType,
     contentEncoding |-> headerOf(layers, withIdentity),
     contentLength |-> IF hasLength THEN length(Bytes(layers, raw, 0)) ELSE -1,
     body |-> Bytes(layers, raw, 0),
     blobLimit |-> limit]

\* the requests of the given content types
BodyRequests(contentTypes) ==
    {BodyRequest(ct, ls, raw, id, cl, lim) :
        ct \in contentTypes,
        ls \in SeqsUpTo(Layers, MaxChain), raw \in 0..MaxSize,
        id \in BOOLEAN, cl \in BOOLEAN, lim \in {0, blobLimit}}

\* what the body middleware does: it throws an error, or sets
\* validatedInput to the body and calls next
Rejected(kind, message) == [kind |-> kind, message |-> message, body |-> Bytes(<<>>, 0, 0)]

Accepted(body) == [kind |-> "next", message |-> None, body |-> body]

\* new DecompressionStream(format) fed with the bytes: the decompressed
\* bytes, or an error if the bytes are not data of that format alone
DecompressionStream(format, b) ==
    IF b.layers # <<>> /\ Head(b.layers).fmt = format /\ b.pad = 0
    THEN [ok |-> TRUE, out |-> Bytes(Tail(b.layers), b.raw, 0)]
    ELSE [ok |-> FALSE, out |-> b]

transform(encoding) == IF encoding = "br" THEN "deflate" ELSE encoding

RECURSIVE decompress(_, _, _, _)
\* the loop over encodings.reverse(): totalSize is declared before the loop
\* and counts the bytes read in every turn; currentBody is a new array of
\* totalSize bytes with the chunks of this turn at its start
decompress(encodings, currentBody, totalSize, limit) ==
    IF encodings = <<>> THEN Accepted(currentBody)
    ELSE IF ~DecompressionStream(transform(Head(encodings)), currentBody).ok
    THEN Rejected("InvalidRequest", "unable to read input")
    ELSE IF limit # 0 /\ totalSize + length(DecompressionStream(transform(Head(encodings)), currentBody).out) > limit
    THEN Rejected("PayloadTooLarge", "request entity too large")
    ELSE decompress(Tail(encodings),
                    [DecompressionStream(transform(Head(encodings)), currentBody).out EXCEPT !.pad = totalSize],
                    totalSize + length(DecompressionStream(transform(Head(encodings)), currentBody).out),
                    limit)

\* the body parsing middleware of a POST route
bodyMiddleware(r) ==
    IF r.contentLength # -1 /\ r.blobLimit # 0 /\ r.contentLength > r.blobLimit
    THEN Rejected("PayloadTooLarge", "request entity too large")
    ELSE IF r.contentType = "text/plain"
    THEN \* await c.req.text(): the bytes as they came, no limit, no decompression
         Accepted(r.body)
    ELSE IF r.blobLimit # 0 /\ length(r.body) > r.blobLimit
    THEN Rejected("PayloadTooLarge", "request entity too large")
    ELSE decompress(Reversed(SelectSeq(r.contentEncoding, LAMBDA e : e # "identity")),
                    r.body, 0, r.blobLimit)

\* ---- the $type of a subscription message

MaxTypeLen == 4

\* a string is the sequence of its characters; "n" stands for the NSID of the
\* subscription and "m" for another NSID
Chars == {"n", "m", "a", "#"}

SubscriptionNsid == <<"n">>

\* the $type of an item: a string, or NoType for an item without $type
NoType == <<Undefined>>

TypeStrings == SeqsUpTo(Chars, MaxTypeLen)

Item(type, fields) == [type |-> type, fields |-> fields]

Items == {Item(t, f) : t \in TypeStrings \cup {NoType}, f \in {"o1", "o2"}}

RECURSIVE splitFrom(_, _, _)
\* type.split(sep): the pieces between the separators, the last piece being
\* the one under way
splitFrom(str, sep, piece) ==
    IF str = <<>> THEN <<piece>>
    ELSE IF Head(str) = sep THEN <<piece>> \o splitFrom(Tail(str), sep, <<>>)
    ELSE splitFrom(Tail(str), sep, Append(piece, Head(str)))

split(str, sep) == splitFrom(str, sep, <<>>)

startsWith(str, c) == Len(str) >= 1 /\ str[1] = c

\* new MessageFrame(body, { type }): the header and the body
TypedFrame(body, type) == [header |-> [op |-> FrameType.Message, t |-> type], body |-> body]

\* a header type that is the $type as the handler gave it
headerType_Verbatim(nsid, type) == type

\* the header type of an item with a string $type
headerType(nsid, type) ==
    IF Len(split(type, "#")) = 2 /\ (split(type, "#")[1] = <<>> \/ split(type, "#")[1] = nsid)
    THEN <<"#">> \o split(type, "#")[2]
    ELSE type

\* the frame of an item yielded by the handler of a subscription
itemFrame(nsid, item) ==
    IF item.type = NoType THEN TypedFrame(item, NoType)
    ELSE TypedFrame(Item(NoType, item.fields), headerType(nsid, item.type))

\* Frame.toBytes: the CBOR of the header, then the CBOR of the body
toBytes(f) == <<[cbor |-> "header", op |-> f.header.op, t |-> f.header.t], [cbor |-> "body", item |-> f.body]>>

\* Frame.fromBytes of a message frame
fromBytes(bytes) == TypedFrame(bytes[2].item, bytes[1].t)

\* the message a Subscription of the method makes of a chunk, before
\* opts.validate
subscriptionMessage(method, chunk) ==
    IF fromBytes(chunk).header.t = NoType THEN fromBytes(chunk).body
    ELSE Item(IF startsWith(fromBytes(chunk).header.t, "#")
              THEN method \o fromBytes(chunk).header.t
              ELSE fromBytes(chunk).header.t,
              fromBytes(chunk).body.fields)

\* an item goes from the handler to the consumer of the Subscription
deliver(nsid, item) ==
    [frame |-> itemFrame(nsid, item),
     message |-> subscriptionMessage(nsid, toBytes(itemFrame(nsid, item)))]

\* ---- the NSID of a request path

MaxNsidLen == 4

\* the characters of a path after "/xrpc/": a letter, a digit, the two
\* separators, "/", "?" and a character of no other class
PathChars == {"a", "1", "-", ".", "/", "?", "_"}

xrpcPrefix == <<"/", "x", "r", "p", "c", "/">>

\* what may follow the NSID: nothing, "/", "?" and a query, "/?" and a query
Suffixes ==
    {<<>>, <<"/">>} \cup
    {sl \o <<"?">> \o q : sl \in {<<>>, <<"/">>}, q \in {<<>>, <<"a">>, <<"/">>}}

UrlPath(str, suffix) == [s |-> str, suffix |-> suffix, path |-> xrpcPrefix \o str \o suffix]

UrlPaths == {UrlPath(str, suf) : str \in SeqsUpTo(PathChars, MaxNsidLen), suf \in Suffixes}

\* char codes 48-57, 65-90, 97-122
isAlphaNum_OrOther(c) == c \in {"a", "1", "x", "r", "p", "c", "_"}

isAlphaNum(c) == c \in {"a", "1", "x", "r", "p", "c"}

\* a "/" at the end of the path only
trailingSlash_AtEnd(path, curr) == curr = Len(path)

\* the "/" at curr is a trailing slash: the next char is EOS or "?"
trailingSlash(path, curr) == curr = Len(path) \/ path[curr + 1] = "?"

InvalidXrpcPath == [kind |-> "InvalidRequest", message |-> "invalid xrpc path", nsid |-> <<>>]

Nsid(str) == [kind |-> "return", message |-> None, nsid |-> str]

RECURSIVE scanNsid(_, _, _)
\* the loop over the characters from curr on (curr counts from 1), and the
\* two tests after it: the place where the NSID ends, or 0 for a throw
scanNsid(path, curr, alphaNumRequired) ==
    IF curr > Len(path) \/ path[curr] = "?" \/ (path[curr] = "/" /\ trailingSlash(path, curr))
    THEN IF alphaNumRequired \/ curr - 7 < 2 THEN 0 ELSE curr
    ELSE IF isAlphaNum(path[curr]) THEN scanNsid(path, curr + 1, FALSE)
    ELSE IF path[curr] \in {"-", "."} /\ ~alphaNumRequired THEN scanNsid(path, curr + 1, TRUE)
    ELSE 0

\* parseUrlNsid of a path (new URL(path) throws on a path)
parseUrlNsid(path) ==
    IF Len(path) <= 6 \/ SubSeq(path, 1, 6) # xrpcPrefix THEN InvalidXrpcPath
    ELSE IF scanNsid(path, 7, TRUE) = 0 THEN InvalidXrpcPath
    ELSE Nsid(SubSeq(path, 7, scanNsid(path, 7, TRUE) - 1))

\* ---- query parameters

MaxItems == 2

\* a parameter value: a string (the sequence of its characters), an integer,
\* a boolean, an array of strings, or undefined
Value(type, str, int, bool, items) ==
    [type |-> type, str |-> str, int |-> int, bool |-> bool, items |-> items]

StringValue(str) == Value("string", str, 0, FALSE, <<>>)

IntegerValue(n) == Value("integer", <<>>, n, FALSE, <<>>)

BooleanValue(b) == Value("boolean", <<>>, 0, b, <<>>)

ArrayValue(items) == Value("array", <<>>, 0, FALSE, items)

UndefinedValue == Value("undefined", <<>>, 0, FALSE, <<>>)

\* def.parameters.properties of the method
ParamProperties ==
    [q |-> [type |-> "string"], limit |-> [type |-> "integer"],
     full |-> [type |-> "boolean"], tags |-> [type |-> "array", items |-> [type |-> "string"]]]

StringValues == {StringValue(str) : str \in {<<>>, <<"a">>, <<"0">>, <<"a", "b">>}}

ValuesOf(property) ==
    CASE property.type = "string" -> StringValues
      [] property.type = "integer" -> {IntegerValue(n) : n \in {-1, 0, 1, 10}}
      [] property.type = "boolean" -> {BooleanValue(b) : b \in BOOLEAN}
      [] OTHER -> {ArrayValue(items) : items \in SeqsUpTo(StringValues, MaxItems)}

\* the parameter maps of the types the method declares, over any of its keys
ParamMaps ==
    {[k \in keys |-> m[k]] :
        m \in [q : ValuesOf(ParamProperties.q), limit : ValuesOf(ParamProperties.limit),
               full : ValuesOf(ParamProperties.full), tags : ValuesOf(ParamProperties.tags)],
        keys \in SUBSET DOMAIN ParamProperties}

Digits == <<"0", "1", "2", "3", "4", "5", "6", "7", "8", "9">>

RECURSIVE digitsOf(_)
digitsOf(n) ==
    IF n < 10 THEN <<Digits[n + 1]>> ELSE Append(digitsOf(n \div 10), Digits[(n % 10) + 1])

\* Number.prototype.toString of an integer
toString(n) == IF n < 0 THEN <<"-">> \o digitsOf(-n) ELSE digitsOf(n)

isDigit(c) == \E d \in 1..10 : Digits[d] = c

RECURSIVE parseDigits(_, _, _)
\* the value of the leading digits of the string, and whether there is one
parseDigits(str, seen, value) ==
    IF str = <<>> \/ ~isDigit(Head(str)) THEN [nan |-> ~seen, value |-> value]
    ELSE parseDigits(Tail(str), TRUE,
                     10 * value + (CHOOSE d \in 1..10 : Digits[d] = Head(str)) - 1)

\* parseInt(str, 10) || 0
parseIntOr0(str) ==
    IF str # <<>> /\ Head(str) = "-"
    THEN (IF parseDigits(Tail(str), FALSE, 0).nan THEN 0 ELSE -parseDigits(Tail(str), FALSE, 0).value)
    ELSE (IF parseDigits(str, FALSE, 0).nan THEN 0 ELSE parseDigits(str, FALSE, 0).value)

\* encodeQueryParam of a value that is no array: a string
encodeQueryParam(value) ==
    CASE value.type = "string" -> value.str
      [] value.type = "integer" -> toString(value.int)
      [] value.type = "boolean" ->
            IF value.bool THEN <<"t", "r", "u", "e">> ELSE <<"f", "a", "l", "s", "e">>
      [] OTHER -> <<>>

\* encodeQueryParams and URLSearchParams: the strings appended or set under
\* each key, an array giving one string per item with flatMap
encodeQueryParams(obj) ==
    [k \in DOMAIN obj |->
        IF obj[k].type = "array"
        THEN [i \in 1..Len(obj[k].items) |-> encodeQueryParam(obj[k].items[i])]
        ELSE <<encodeQueryParam(obj[k])>>]

\* getQueryParams of the URL made of the query: searchParams.getAll(key)
\* for each of searchParams.keys(), the keys that have a string
getQueryParams(query) ==
    [k \in {key \in DOMAIN query : query[key] # <<>>} |-> query[k]]

\* a decodeQueryParam without the test of a falsy value
decodeQueryParam_KeepsBlank(type, value) ==
    CASE type = "string" -> StringValue(value)
      [] type = "integer" -> IntegerValue(parseIntOr0(value))
      [] type = "boolean" -> BooleanValue(value = <<"t", "r", "u", "e">>)
      [] OTHER -> UndefinedValue

decodeQueryParam(type, value) ==
    IF value = <<>> THEN UndefinedValue
    ELSE CASE type = "string" -> StringValue(value)
           [] type = "integer" -> IntegerValue(parseIntOr0(value))
           [] type = "boolean" -> BooleanValue(value = <<"t", "r", "u", "e">>)
           [] OTHER -> UndefinedValue

\* decodeQueryParams of the parameters as getQueryParams gives them
decodeParams(properties, params) ==
    [k \in DOMAIN properties \cap DOMAIN params |->
        IF properties[k].type = "array"
        THEN ArrayValue(SelectSeq([i \in 1..Len(params[k]) |->
                                      decodeQueryParam(properties[k].items.type, params[k][i])],
                                  LAMBDA v : v # UndefinedValue))
        ELSE decodeQueryParam(properties[k].type, params[k][1])]

\* ---- service JWTs

MaxTime == 2

\* the keys an issuer may publish
SigningKeys == {"k1", "k2"}

\* a JWT by what its parts hold: the number of parts separated by ".", the
\* typ of the header, the exp, aud and lxm of the payload (seconds, a DID, a
\* method or undefined) and the signature: made with a key, made with no
\* key of the issuer, or bytes the verification throws on
Jwt(parts, typ, exp, aud, lxm, sig) ==
    [parts |-> parts, typ |-> typ, exp |-> exp, aud |-> aud, lxm |-> lxm, sig |-> sig]

Jwts ==
    {Jwt(parts, typ, exp, aud, lxm, sig) :
        parts \in {2, 3}, typ \in {"JWT", "at+jwt", "refresh+jwt", "dpop+jwt", Undefined},
        exp \in 0..MaxTime, aud \in {"did:a", "did:b"}, lxm \in {Undefined, "m1", "m2"},
        sig \in SigningKeys \cup {"other", "malformed"}}

\* a call of verifyJwt: the token, Date.now() / 1000, the ownDid and lxm
\* arguments (null to skip the test), and what getSigningKey resolves to
\* without and with forceRefresh
VerifyCall(jwt, now, ownDid, lxm, signingKey, freshSigningKey) ==
    [jwt |-> jwt, now |-> now, ownDid |-> ownDid, lxm |-> lxm,
     signingKey |-> signingKey, freshSigningKey |-> freshSigningKey]

VerifyCalls(jwts) ==
    {VerifyCall(jwt, now, ownDid, lxm, k, fk) :
        jwt \in jwts, now \in 0..MaxTime, ownDid \in {"null", "did:a"},
        lxm \in {"null", "m1"}, k \in SigningKeys, fk \in SigningKeys}

\* what verifyJwt did: it returned the payload or threw an
\* AuthRequiredError, after the calls of getSigningKey (their forceRefresh
\* arguments) and of verifySignatureWithKey (their keys) in their order
Verified(kind, name, fetched, verifiedWith) ==
    [kind |-> kind, name |-> name, fetched |-> fetched, verifiedWith |-> verifiedWith]

AuthRequiredError(name, fetched, verifiedWith) == Verified("throw", name, fetched, verifiedWith)

forbiddenTyp_None(typ) == FALSE

\* the typ values verifyJwt forbids
forbiddenTyp(typ) == typ \in {"at+jwt", "refresh+jwt", "dpop+jwt"}

\* verifySignatureWithKey(key, msgBytes, sigBytes, alg)
verifySignatureWithKey(key, sig) ==
    IF sig = "malformed" THEN "throws" ELSE IF sig = key THEN "true" ELSE "false"

\* a verifyJwt that verifies with the fresh key whether it changed or not
verifyFresh_Always(c) ==
    IF verifySignatureWithKey(c.freshSigningKey, c.jwt.sig) = "true"
    THEN Verified("return", None, <<FALSE, TRUE>>, <<c.signingKey, c.freshSigningKey>>)
    ELSE AuthRequiredError("BadJwtSignature", <<FALSE, TRUE>>, <<c.signingKey, c.freshSigningKey>>)

\* the block under if (!validSig): the fresh key is fetched and the
\* signature verified with it if it is another key
verifyFresh(c) ==
    IF c.freshSigningKey = c.signingKey
    THEN AuthRequiredError("BadJwtSignature", <<FALSE, TRUE>>, <<c.signingKey>>)
    ELSE IF verifySignatureWithKey(c.freshSigningKey, c.jwt.sig) = "true"
    THEN Verified("return", None, <<FALSE, TRUE>>, <<c.signingKey, c.freshSigningKey>>)
    ELSE AuthRequiredError("BadJwtSignature", <<FALSE, TRUE>>, <<c.signingKey, c.freshSigningKey>>)

verifyJwt(c) ==
    IF c.jwt.parts # 3 THEN AuthRequiredError("BadJwt", <<>>, <<>>)
    ELSE IF forbiddenTyp(c.jwt.typ) THEN AuthRequiredError("BadJwtType", <<>>, <<>>)
    ELSE IF c.now > c.jwt.exp THEN AuthRequiredError("JwtExpired", <<>>, <<>>)
    ELSE IF c.ownDid # "null" /\ c.jwt.aud # c.ownDid
    THEN AuthRequiredError("BadJwtAudience", <<>>, <<>>)
    ELSE IF c.lxm # "null" /\ c.jwt.lxm # c.lxm
    THEN AuthRequiredError("BadJwtLexiconMethod", <<>>, <<>>)
    ELSE IF verifySignatureWithKey(c.signingKey, c.jwt.sig) = "throws"
    THEN AuthRequiredError("BadJwtSignature", <<FALSE>>, <<c.signingKey>>)
    ELSE IF verifySignatureWithKey(c.signingKey, c.jwt.sig) = "true"
    THEN Verified("return", None, <<FALSE>>, <<c.signingKey>>)
    ELSE verifyFresh(c)

\* ---- the tightest of several limiter results

MaxResults == 3

\* what a limiter may answer: null, a status with some points remaining, or
\* a RateLimitExceededError
LimiterResults ==
    {NullRes}
    \cup {formatLimiterStatus([points |-> 3], consumed) : consumed \in 1..3}
    \cup {formatLimiterStatus([points |-> p], p + 1) : p \in {2, 3}}

InsertAt(seq, i, x) == SubSeq(seq, 1, i) \o <<x>> \o SubSeq(seq, i + 1, Len(seq))

\* the results of the limiters of a request, and one more result put at
\* some place among them
TightestCalls ==
    {[resps |-> resps, extra |-> x, at |-> i] :
        resps \in SeqsUpTo(LimiterResults, MaxResults), x \in LimiterResults,
        i \in 0..MaxResults}

\* getTightestLimit of the results, and of the results with one more
tightestOfBoth(c) ==
    [of |-> getTightestLimit(c.resps),
     with |-> getTightestLimit(InsertAt(c.resps, IF c.at > Len(c.resps) THEN Len(c.resps) ELSE c.at, c.extra))]

\* the state the request dispatcher never writes: the backing store being
\* out of reach is decided by the environment when the server is built
otherVars == <<storeDown, remoteStore, streamVars, clientVars, callVars>>

httpVars ==
    <<store, requested, nreq, phase, req, chain, pc, locals, validatedInput,
      headers, resp, stages, rlLog, handlerCalls, arrival, resetKeys>>

vars == <<httpVars, otherVars>>

Keys == Ips \cup {"a", "b"}

EmptyStore == [l \in Limiters |-> [k \in Keys |-> 0]]

\* the state after construction of the dispatcher, of a stream connection
\* and of a client
InitServer ==
    /\ StreamInit
    /\ ClientInit
    /\ storeDown \in BOOLEAN
    /\ store = EmptyStore
    /\ requested = EmptyStore
    /\ nreq = 0
    /\ phase = "idle"
    /\ req = NoReq
    /\ chain = <<>>
    /\ pc = 0
    /\ locals = None
    /\ validatedInput = None
    /\ headers = NoHeaders
    /\ resp = NoResp
    /\ stages = <<>>
    /\ rlLog = <<>>
    /\ handlerCalls = 0
    /\ arrival = EmptyStore
    /\ resetKeys = {}

\* the server of the tests: createServer with RateLimiter.memory
InitOthers == InitServer /\ remoteStore = FALSE

Init == InitOthers /\ CallInit

\* history of one consumeMany call: an entry per limiter of the list, with
\* the key and points the request maps to and the points asked of that key
\* so far, the request included
RECURSIVE logAll(_, _, _, _, _)
addRequested(rq, l, key, points) ==
    IF key # None /\ points >= 1 /\ ~storeDown
    THEN [rq EXCEPT ![l][key] = rq[l][key] + points] ELSE rq

logEntry(entry, rest) ==
    [requested |-> rest.requested, entries |-> <<entry>> \o rest.entries]

logRest(fns, ctx, results, rq, stage, l, key, points) ==
    logEntry([limiter |-> l, stage |-> stage, key |-> key, points |-> points,
              counted |-> key # None /\ points >= 1 /\ ~storeDown,
              total |-> IF key # None /\ points >= 1 /\ ~storeDown
                        THEN rq[l][key] + points ELSE 0,
              res |-> Head(results),
              authed |-> ctx.auth # None,
              afterReset |-> <<l, key>> \in resetKeys],
             logAll(Tail(fns), ctx, Tail(results), addRequested(rq, l, key, points),
                    stage))

logAll(fns, ctx, results, rq, stage) ==
    IF fns = <<>> THEN [requested |-> rq, entries |-> <<>>]
    ELSE logRest(fns, ctx, results, rq, stage, Head(fns).limiter,
                 KeyOf(Head(fns).limiter, Head(fns), ctx),
                 PointsOf(Head(fns).limiter, Head(fns), ctx))

\* the <<limiter, key>> a consumeMany call counted, and those a resetMany
\* call deleted
consumedKeys(entries) ==
    {<<entries[i].limiter, entries[i].key>> : i \in {j \in DOMAIN entries : entries[j].counted}}

deletedKeys(ctx, fns) ==
    IF storeDown THEN {}
    ELSE {<<fns[i].limiter, KeyOf(fns[i].limiter, fns[i], ctx)>> :
            i \in {j \in DOMAIN fns : KeyOf(fns[j].limiter, fns[j], ctx) # None}}

\* a request ends with a response
Respond(r, newStages) ==
    /\ resp' = r
    /\ phase' = "done"
    /\ stages' = stages \o newStages \o <<"send">>
    /\ pc' = pc

Throw(kind, newStages) == Respond(createErrorMiddleware(kind), newStages)

\* await next()
Next_(newStages) ==
    /\ pc' = pc + 1
    /\ stages' = stages \o newStages
    /\ UNCHANGED <<resp, phase>>

At(name) == phase = "run" /\ pc <= Len(chain) /\ chain[pc] = name

\* ----------------------------------------------------------------- actions
\* a request arrives at the listener: an Upgrade: websocket request is
\* answered here (101 for a registered subscription, 404 otherwise), any
\* other request goes to server.app
enableStreamingOnListen ==
    /\ UNCHANGED <<resetKeys, otherVars>>
    /\ phase = "idle"
    /\ nreq < MaxRequests
    /\ \E r \in Requests :
        /\ req' = r
        /\ nreq' = nreq + 1
        /\ IF r.upgrade
           THEN /\ resp' = IF r.nsid \in StreamMethods
                           THEN [status |-> 101, error |-> None]
                           ELSE [status |-> 404, error |-> "Not Found"]
                /\ phase' = "done"
                /\ chain' = <<>>
                /\ pc' = 0
                /\ stages' = <<"upgrade", "send">>
           ELSE /\ resp' = NoResp
                /\ phase' = "run"
                /\ chain' = AppChain(r)
                /\ pc' = 1
                /\ stages' = <<>>
    /\ arrival' = store
    /\ UNCHANGED <<store, requested, locals, validatedInput, headers, rlLog,
                   handlerCalls>>

\* a catch-all that does not look at the result of the global limiters
catchallOutcome_NoRateLimit(rlRes, r) ==
    IF LexDef(r.nsid) = None THEN "MethodNotImplemented"
    ELSE IF LexDef(r.nsid) = "query" /\ r.method # "GET" THEN "InvalidRequest"
    ELSE IF LexDef(r.nsid) = "procedure" /\ r.method # "POST" THEN "InvalidRequest"
    ELSE "next"

\* a catch-all that resolves the method before it looks at the limiters
catchallOutcome_ResolveFirst(rlRes, r) ==
    IF LexDef(r.nsid) = None THEN "MethodNotImplemented"
    ELSE IF rlRes.kind = "exceeded" THEN "RateLimitExceeded"
    ELSE IF LexDef(r.nsid) = "query" /\ r.method # "GET" THEN "InvalidRequest"
    ELSE IF LexDef(r.nsid) = "procedure" /\ r.method # "POST" THEN "InvalidRequest"
    ELSE "next"

\* a catch-all that does not compare the verb with the kind of the method
catchallOutcome_NoVerbCheck(rlRes, r) ==
    IF rlRes.kind = "exceeded" THEN "RateLimitExceeded"
    ELSE IF LexDef(r.nsid) = None THEN "MethodNotImplemented"
    ELSE "next"

\* Server.catchall after the global limiters have been consumed: the error
\* it throws, or "next".  A rate-limit rejection comes first, then method
\* resolution, then the check of the verb against the kind of the method; a
\* subscription definition passes
catchallOutcome(rlRes, r) ==
    IF rlRes.kind = "error" THEN "InternalServerError"
    ELSE IF rlRes.kind = "exceeded" THEN "RateLimitExceeded"
    ELSE IF LexDef(r.nsid) = None THEN "MethodNotImplemented"
    ELSE IF LexDef(r.nsid) = "query" /\ r.method # "GET" THEN "InvalidRequest"
    ELSE IF LexDef(r.nsid) = "procedure" /\ r.method # "POST" THEN "InvalidRequest"
    ELSE "next"

\* Server.catchall: consumes the global limiters for the request, then
\* resolves the method
catchall ==
    /\ UNCHANGED otherVars
    /\ At("catchall")
    /\ \E ctx \in {[req |-> req, params |-> NoParams, auth |-> None]} :
       \E rl \in {consumeMany(ctx, globalFns, store, headers)} :
       \E log \in {logAll(globalFns, ctx, rl.results, requested, "catchall")} :
       \E outcome \in {catchallOutcome(rl.res, req)} :
       \E ran \in {IF rl.res.kind \in {"exceeded", "error"} THEN <<"ratelimit-global">>
                   ELSE <<"ratelimit-global", "resolve">>} :
          /\ store' = rl.store
          /\ headers' = rl.headers
          /\ requested' = log.requested
          /\ rlLog' = rlLog \o log.entries
          /\ resetKeys' = resetKeys \ consumedKeys(log.entries)
          /\ IF outcome = "next" THEN Next_(ran) ELSE Throw(outcome, ran)
    /\ UNCHANGED <<nreq, req, chain, locals, validatedInput, handlerCalls, arrival>>

\* createLocalsMiddleware
createLocalsMiddleware ==
    /\ UNCHANGED <<resetKeys, otherVars>>
    /\ At("locals")
    /\ locals' = None
    /\ Next_(<<"locals">>)
    /\ UNCHANGED <<store, requested, nreq, req, chain, validatedInput, headers,
                   rlLog, handlerCalls, arrival>>

\* createAuthMiddleware: the verifier either yields the credentials, kept in
\* the locals, or the request ends with its error
createAuthMiddleware ==
    /\ UNCHANGED <<resetKeys, otherVars>>
    /\ At("auth")
    /\ IF req.authOk
       THEN /\ locals' = "admin"
            /\ Next_(<<"auth">>)
       ELSE /\ locals' = locals
            /\ Throw("AuthenticationRequired", <<"auth">>)
    /\ UNCHANGED <<store, requested, nreq, req, chain, validatedInput, headers,
                   rlLog, handlerCalls, arrival>>

\* the body middleware addRoute puts before the handler of a procedure:
\* reads the body and validates it against the input schema (validateInput)
parseBody ==
    /\ UNCHANGED <<resetKeys, otherVars>>
    /\ At("body")
    /\ IF req.body = "valid"
       THEN /\ validatedInput' = "input"
            /\ Next_(<<"body">>)
       ELSE /\ validatedInput' = validatedInput
            /\ Throw("InvalidRequest", <<"body">>)
    /\ UNCHANGED <<store, requested, nreq, req, chain, locals, headers, rlLog,
                   handlerCalls, arrival>>

\* the response for what the handler returned
outputResponse(output) ==
    IF output = "error" THEN createErrorMiddleware("Forbidden")
    ELSE IF output = "invalid" /\ validateResponse
    THEN createErrorMiddleware("InternalServerError")
    ELSE [status |-> 200, error |-> None]

outputStages(output) ==
    IF output = "error" \/ ~validateResponse THEN <<"handler">>
    ELSE <<"handler", "validate">>

\* a handler middleware that consumes the limiters of the route before it
\* validates the parameters
createHandler_RateLimitFirst ==
    /\ UNCHANGED otherVars
    /\ At("handler")
    /\ \E ctx \in {[req |-> req, params |-> decodeQueryParams(req), auth |-> locals]} :
       \E rls \in {routeRateLimiters(req.nsid)} :
       \E rl \in {consumeMany(ctx, rls, store, headers)} :
       \E log \in {logAll(rls, ctx, rl.results, requested, "route")} :
          /\ headers' = rl.headers
          /\ rlLog' = rlLog \o log.entries
          /\ resetKeys' =
                (resetKeys \ consumedKeys(log.entries))
                \cup (IF req.reset /\ rl.res.kind # "exceeded" /\ req.paramsOk
                      THEN deletedKeys(ctx, rls) ELSE {})
          /\ store' = IF req.reset /\ rl.res.kind # "exceeded" /\ req.paramsOk
                      THEN resetMany(ctx, rls, rl.store) ELSE rl.store
          /\ requested' = IF req.reset /\ rl.res.kind # "exceeded" /\ req.paramsOk
                          THEN resetMany(ctx, rls, log.requested) ELSE log.requested
          /\ IF rl.res.kind = "exceeded"
             THEN /\ handlerCalls' = handlerCalls
                  /\ Throw("RateLimitExceeded", <<"ratelimit-route">>)
             ELSE IF ~req.paramsOk
             THEN /\ handlerCalls' = handlerCalls
                  /\ Throw("InvalidRequest", <<"ratelimit-route", "params">>)
             ELSE /\ handlerCalls' = handlerCalls + 1
                  /\ \E output \in HandlerOutputs :
                       Respond(outputResponse(output),
                               <<"ratelimit-route", "params">> \o outputStages(output))
    /\ UNCHANGED <<nreq, req, chain, locals, validatedInput, arrival>>

\* the middleware createHandler returns: parameter validation, the limiters
\* of the route, the method handler (which may reset the route's limiters),
\* validation of the output
createHandler ==
    /\ UNCHANGED otherVars
    /\ At("handler")
    /\ IF ~req.paramsOk
       THEN /\ Throw("InvalidRequest", <<"params">>)
            /\ UNCHANGED <<store, requested, headers, rlLog, handlerCalls, resetKeys>>
       ELSE \E ctx \in {[req |-> req, params |-> decodeQueryParams(req),
                          auth |-> locals]} :
            \E rls \in {routeRateLimiters(req.nsid)} :
            \E rl \in {consumeMany(ctx, rls, store, headers)} :
            \E log \in {logAll(rls, ctx, rl.results, requested, "route")} :
               /\ headers' = rl.headers
               /\ rlLog' = rlLog \o log.entries
               /\ resetKeys' =
                     (resetKeys \ consumedKeys(log.entries))
                     \cup (IF req.reset /\ rl.res.kind \notin {"exceeded", "error"}
                           THEN deletedKeys(ctx, rls) ELSE {})
               /\ IF rl.res.kind \in {"exceeded", "error"}
                  THEN /\ store' = rl.store
                       /\ requested' = log.requested
                       /\ handlerCalls' = handlerCalls
                       /\ Throw(IF rl.res.kind = "error" THEN "InternalServerError"
                                ELSE "RateLimitExceeded",
                                <<"params", "ratelimit-route">>)
                  ELSE /\ handlerCalls' = handlerCalls + 1
                       /\ store' = IF req.reset THEN resetMany(ctx, rls, rl.store)
                                   ELSE rl.store
                       /\ requested' = IF req.reset
                                       THEN resetMany(ctx, rls, log.requested)
                                       ELSE log.requested
                       /\ IF req.reset /\ resetThrows(ctx, rls)
                          THEN Throw("InternalServerError",
                                     <<"params", "ratelimit-route", "handler">>)
                          ELSE \E output \in HandlerOutputs :
                                 Respond(outputResponse(output),
                                         <<"params", "ratelimit-route">>
                                             \o outputStages(output))
    /\ UNCHANGED <<nreq, req, chain, locals, validatedInput, arrival>>

\* no handler is left in the chain: Hono's 404
notFound ==
    /\ UNCHANGED <<resetKeys, otherVars>>
    /\ phase = "run"
    /\ pc > Len(chain)
    /\ Respond([status |-> 404, error |-> "Not Found"], <<>>)
    /\ UNCHANGED <<store, requested, nreq, req, chain, locals, validatedInput,
                   headers, rlLog, handlerCalls, arrival>>

\* the response is sent; the request's context is dropped
finish ==
    /\ UNCHANGED <<resetKeys, otherVars>>
    /\ phase = "done"
    /\ phase' = "idle"
    /\ req' = NoReq
    /\ chain' = <<>>
    /\ pc' = 0
    /\ locals' = None
    /\ validatedInput' = None
    /\ headers' = NoHeaders
    /\ resp' = NoResp
    /\ stages' = <<>>
    /\ rlLog' = <<>>
    /\ handlerCalls' = 0
    /\ arrival' = EmptyStore
    /\ UNCHANGED <<store, requested, nreq>>

\* the window of a key ends between two requests: the store drops the key
expire ==
    /\ UNCHANGED <<resetKeys, otherVars>>
    /\ phase = "idle"
    /\ nreq < MaxRequests
    /\ \E l \in Limiters, k \in Keys :
        /\ store[l][k] > 0
        /\ store' = [store EXCEPT ![l][k] = 0]
        /\ requested' = [requested EXCEPT ![l][k] = 0]
    /\ UNCHANGED <<nreq, phase, req, chain, pc, locals, validatedInput, headers,
                   resp, stages, rlLog, handlerCalls, arrival>>

Next ==
    \/ enableStreamingOnListen
    \/ catchall
    \/ createLocalsMiddleware
    \/ createAuthMiddleware
    \/ parseBody
    \/ createHandler
    \/ notFound
    \/ finish
    \/ expire

Spec == Init /\ [][Next]_vars

\* the dispatcher with either kind of store behind its limiters
InitStores == InitServer /\ CallInit /\ ~storeDown /\ remoteStore \in BOOLEAN

SpecStores == InitStores /\ [][Next]_vars

\* ------------------------------------------- the stream server's connection
\* what a connection of the stream server never writes
notStreamVars == <<httpVars, storeDown, remoteStore, clientVars, callVars>>

remember(history, x) ==
    IF Len(history) < MaxHistory THEN Append(history, x) ELSE history

\* socket.close(code, reason) by the server
socketClose(code, reason) ==
    /\ closeCalls' = remember(closeCalls, [code |-> code, reason |-> reason])
    /\ socket' = "closed"
    /\ closedBy' = IF socket = "open"
                   THEN [by |-> "server", code |-> code, reason |-> reason]
                   ELSE closedBy
    /\ loop' = "ended"

\* wss.on("connection"): the controller and the iterator are made,
\* socket.onclose is set and the loop asks the producer for its first frame
connection ==
    /\ UNCHANGED notStreamVars
    /\ socket = "none"
    /\ \E p \in Producers : producer' = p
    /\ socket' = "open"
    /\ gen' = "running"
    /\ loop' = "awaiting"
    /\ UNCHANGED <<pos, returnQueued, returnCalls, aborted, closedBy, oncloseFired,
                   result, frame, yielded, sent, closeCalls, handlerStarted,
                   stepsAfterClose, resumedAfterError>>

\* the producer runs to its next yield, to its end or to a throw; a return()
\* that arrived meanwhile completes it at the yield
produce ==
    /\ UNCHANGED notStreamVars
    /\ gen = "running"
    /\ loop = "awaiting"
    /\ \E g \in {handler(producer)} :
        /\ handlerStarted' = (handlerStarted \/ g.started)
        /\ IF pos < Len(g.frames)
           THEN /\ result' = "frame"
                /\ frame' = g.frames[pos + 1]
                /\ yielded' = remember(yielded, g.frames[pos + 1])
                /\ pos' = IF g.ending = "loop" /\ pos + 1 = Len(g.frames) THEN 0 ELSE pos + 1
                /\ gen' = IF returnQueued THEN "completed" ELSE "suspendedYield"
           ELSE /\ result' = IF g.ending = "throw" THEN "thrown" ELSE "done"
                /\ gen' = "completed"
                /\ UNCHANGED <<frame, yielded, pos>>
    /\ returnQueued' = FALSE
    /\ loop' = "body"
    /\ resumedAfterError' = (resumedAfterError \/ frame.op = FrameType.Error)
    /\ stepsAfterClose' = IF oncloseFired /\ stepsAfterClose < 2
                          THEN stepsAfterClose + 1 ELSE stepsAfterClose
    /\ UNCHANGED <<producer, returnCalls, aborted, socket, closedBy, oncloseFired,
                   sent, closeCalls>>

\* the loop takes what next() resolved to: a frame is sent and, unless it is
\* an Error frame, the producer is asked for the next; the end of the producer
\* closes with Normal, a throw with Abnormal
forAwait ==
    /\ UNCHANGED notStreamVars
    /\ loop = "body"
    /\ IF result = "frame"
       THEN \E throws \in (IF socket = "open" THEN {FALSE} ELSE BOOLEAN) :
            \E b \in {forAwaitBody(frame, socket = "open", throws)} :
                /\ sent' = IF b.sent THEN remember(sent, frame) ELSE sent
                /\ IF b.exit = "continue"
                   THEN IF gen = "completed"
                        THEN /\ socketClose(CloseCode.Normal, None)
                             /\ UNCHANGED <<gen, returnCalls>>
                        ELSE /\ gen' = "running"
                             /\ loop' = "awaiting"
                             /\ UNCHANGED <<returnCalls, socket, closedBy, closeCalls>>
                   ELSE /\ returnCalls' = returnCalls + 1
                        /\ gen' = generatorReturn(gen)
                        /\ socketClose(b.code, b.reason)
       ELSE /\ socketClose(IF result = "done" THEN CloseCode.Normal ELSE CloseCode.Abnormal, None)
            /\ UNCHANGED <<sent, gen, returnCalls>>
    /\ UNCHANGED <<producer, pos, returnQueued, aborted, oncloseFired, result, frame,
                   yielded, handlerStarted, stepsAfterClose, resumedAfterError>>

\* a socket.onclose that only aborts the signal
onclose_AbortOnly ==
    /\ UNCHANGED notStreamVars
    /\ socket # "none"
    /\ ~oncloseFired
    /\ loop # "body"
    /\ oncloseFired' = TRUE
    /\ socket' = "closed"
    /\ closedBy' = IF socket = "open"
                   THEN [by |-> "client", code |-> CloseCode.Normal, reason |-> None]
                   ELSE closedBy
    /\ aborted' = TRUE
    /\ UNCHANGED <<producer, pos, loop, result, frame, yielded, sent, closeCalls,
                   handlerStarted, stepsAfterClose, resumedAfterError, gen,
                   returnQueued, returnCalls>>

\* socket.onclose, when the client closes the socket or after the server
\* closed it: iterator.return?.() and ac.abort()
onclose ==
    /\ UNCHANGED notStreamVars
    /\ socket # "none"
    /\ ~oncloseFired
    /\ loop # "body"
    /\ oncloseFired' = TRUE
    /\ socket' = "closed"
    /\ closedBy' = IF socket = "open"
                   THEN [by |-> "client", code |-> CloseCode.Normal, reason |-> None]
                   ELSE closedBy
    /\ returnCalls' = returnCalls + 1
    /\ gen' = generatorReturn(gen)
    /\ returnQueued' = (returnQueued \/ gen = "running")
    /\ aborted' = TRUE
    /\ UNCHANGED <<producer, pos, loop, result, frame, yielded, sent, closeCalls,
                   handlerStarted, stepsAfterClose, resumedAfterError>>

NextStream ==
    \/ connection
    \/ produce
    \/ forAwait
    \/ onclose

InitStream == Init /\ ~storeDown

SpecStream == InitStream /\ [][NextStream]_vars

\* the event loop runs a producer that can run and a loop that has a result
SpecStreamFair ==
    InitStream /\ [][NextStream]_vars /\ WF_vars(produce) /\ WF_vars(forAwait)

\* ------------------------------------------- the WebSocketKeepAlive iterator
notClientVars == <<httpVars, storeDown, remoteStore, streamVars, callVars>>

\* a turn of the outer loop up to its first await: the backoff wait, getUrl,
\* new WebSocket, the controller and the handlers
connect ==
    /\ UNCHANGED notClientVars
    /\ UNCHANGED <<signal, abortedAt>>
    /\ iter = "connect"
    /\ Len(urls) < MaxConnections
    /\ urls' = Append(urls, getUrl(handed))
    /\ reconnects' = IF reconnects # -1 /\ ~initialSetup /\ reconnects < MaxConnections
                     THEN reconnects + 1 ELSE reconnects
    /\ wsHandlers' = assign(NoHandlers, iteratorHandlers)
    /\ messageQueue' = <<>>
    /\ error' = NoError
    /\ done' = FALSE
    /\ IF signal
       THEN \* forwardSignal aborts ac at once: the loop is not entered, the
            \* reason is thrown and the catch closes the new socket
            /\ acReason' = "AbortError"
            /\ ws' = "closing"
            /\ iter' = "threw"
            /\ thrown' = "AbortError"
       ELSE /\ acReason' = NoError
            /\ ws' = "connecting"
            /\ iter' = "poll"
            /\ UNCHANGED thrown
    /\ UNCHANGED <<initialSetup, isAlive, heartbeatInterval, turn, delivered, handed,
                   closeEvents, reconnectErrors>>

\* the socket opens: ws.onopen, which starts the heartbeat (checkAlive once,
\* the interval, and the heartbeat's own onmessage and onclose)
onopen ==
    /\ UNCHANGED notClientVars
    /\ UNCHANGED <<signal, abortedAt>>
    /\ ws = "connecting"
    /\ ws' = "open"
    /\ IF wsHandlers.onopen = "startHeartbeat"
       THEN /\ initialSetup' = FALSE
            /\ reconnects' = 0
            /\ isAlive' = FALSE
            /\ heartbeatInterval' = TRUE
            /\ wsHandlers' = assign(wsHandlers, heartbeatHandlers)
       ELSE UNCHANGED <<initialSetup, reconnects, isAlive, heartbeatInterval, wsHandlers>>
    /\ UNCHANGED <<iter, messageQueue, error, done, acReason, turn, urls, delivered,
                   handed, closeEvents, reconnectErrors, thrown>>

\* the socket delivers a message: ws.onmessage
onmessage ==
    /\ UNCHANGED notClientVars
    /\ UNCHANGED <<signal, abortedAt>>
    /\ ws = "open"
    /\ Len(delivered) < MaxMessages
    /\ \E m \in Messages :
        /\ delivered' = IF m \in BinaryFrames THEN Append(delivered, m) ELSE delivered
        /\ messageQueue' = IF wsHandlers.onmessage = "pushToQueue" /\ m \in BinaryFrames
                           THEN Append(messageQueue, m) ELSE messageQueue
        /\ isAlive' = IF wsHandlers.onmessage = "pongIsAlive" /\ m = "pong"
                      THEN TRUE ELSE isAlive
        /\ m = "pong" => ~isAlive
    /\ UNCHANGED <<ws, wsHandlers, iter, error, done, acReason, initialSetup, reconnects,
                   heartbeatInterval, turn, urls, handed, closeEvents, reconnectErrors, thrown>>

\* the socket reports an error: ws.onerror
onerror ==
    /\ UNCHANGED notClientVars
    /\ UNCHANGED <<signal, abortedAt>>
    /\ ws \in {"connecting", "open"}
    /\ error = NoError
    /\ \E code \in ErrorCodes :
        error' = IF wsHandlers.onerror = "setError" THEN code ELSE error
    /\ UNCHANGED <<ws, wsHandlers, iter, messageQueue, done, acReason, initialSetup,
                   reconnects, isAlive, heartbeatInterval, turn, urls, delivered, handed,
                   closeEvents, reconnectErrors, thrown>>

\* the socket closes: ws.onclose, which is whichever handler was assigned last
wsOnclose ==
    /\ UNCHANGED notClientVars
    /\ UNCHANGED <<signal, abortedAt>>
    /\ ws \in {"connecting", "open", "closing"}
    /\ ws' = "closed"
    /\ \E code \in CloseEventCodes :
        /\ closeEvents' = Append(closeEvents, [connection |-> Len(urls), code |-> code, opened |-> ws = "open", by |-> IF ws = "closing" THEN "client" ELSE "server", errored |-> error # NoError])
        /\ acReason' = IF wsHandlers.onclose = "abortIfAbnormal" /\ code = CloseCode.Abnormal /\ acReason = NoError
                       THEN "EWSABNORMALCLOSE" ELSE acReason
    /\ done' = (done \/ wsHandlers.onclose = "setDone")
    /\ heartbeatInterval' = (heartbeatInterval /\ wsHandlers.onclose # "clearInterval")
    /\ UNCHANGED <<wsHandlers, iter, messageQueue, error, initialSetup, reconnects,
                   isAlive, turn, urls, delivered, handed, reconnectErrors, thrown>>

\* the heartbeat's interval fires: close the socket if no "pong" came since
\* the last "ping", else send the next "ping"
checkAlive ==
    /\ UNCHANGED notClientVars
    /\ UNCHANGED <<signal, abortedAt>>
    /\ heartbeatInterval
    /\ IF ~isAlive
       THEN /\ ws \in {"connecting", "open"}
            /\ ws' = "closing"
            /\ UNCHANGED isAlive
       ELSE /\ isAlive' = FALSE
            /\ UNCHANGED ws
    /\ UNCHANGED <<wsHandlers, iter, messageQueue, error, done, acReason, initialSetup,
                   reconnects, heartbeatInterval, turn, urls, delivered, handed,
                   closeEvents, reconnectErrors, thrown>>

\* a forwardSignal that puts no listener on opts.signal
forwardSignal_NoListener(reason) == acReason

\* the listener forwardSignal put on opts.signal: ac.abort(signal.reason),
\* while the connection's controller is there and not aborted yet
forwardSignal(reason) ==
    IF iter = "poll" /\ acReason = NoError THEN reason ELSE acReason

\* opts.signal aborts, with an AbortError for its reason
abort ==
    /\ UNCHANGED notClientVars
    /\ iter \in {"connect", "poll"}
    /\ ~signal
    /\ signal' = TRUE
    /\ abortedAt' = Len(urls)
    /\ acReason' = forwardSignal("AbortError")
    /\ UNCHANGED <<ws, wsHandlers, iter, messageQueue, error, done, initialSetup,
                   reconnects, isAlive, heartbeatInterval, turn, urls, delivered, handed,
                   closeEvents, reconnectErrors, thrown>>

\* the catch of the iterator: this.ws?.close(), then reconnect after a
\* reconnectable error, else throw to the consumer
catch(err) ==
    /\ ws' = IF ws \in {"connecting", "open"} THEN "closing" ELSE ws
    /\ IF isReconnectable(err)
       THEN /\ reconnects' = IF reconnects = -1 THEN 0 ELSE reconnects
            /\ reconnectErrors' = Append(reconnectErrors, [connection |-> Len(urls), code |-> err])
            /\ iter' = "connect"
            /\ UNCHANGED thrown
       ELSE /\ iter' = "threw"
            /\ thrown' = err
            /\ UNCHANGED <<reconnects, reconnectErrors>>

\* a turn of the inner loop: yield the head of the queue, or await a timer;
\* and what follows the loop once done, error or the abort ends it
poll ==
    /\ UNCHANGED notClientVars
    /\ UNCHANGED <<signal, abortedAt>>
    /\ iter = "poll"
    /\ IF ~done /\ error = NoError /\ acReason = NoError
       THEN /\ IF messageQueue # <<>>
               THEN /\ handed' = Append(handed, Head(messageQueue))
                    /\ messageQueue' = Tail(messageQueue)
                    /\ UNCHANGED turn
               ELSE /\ turn' = 1 - turn
                    /\ UNCHANGED <<handed, messageQueue>>
            /\ UNCHANGED <<ws, iter, reconnects, reconnectErrors, thrown>>
       ELSE /\ IF error # NoError THEN catch(error)
               ELSE IF acReason # NoError THEN catch(acReason)
               ELSE /\ iter' = "returned"
                    /\ UNCHANGED <<ws, reconnects, reconnectErrors, thrown>>
            /\ UNCHANGED <<handed, messageQueue, turn>>
    /\ UNCHANGED <<wsHandlers, error, done, acReason, initialSetup, isAlive,
                   heartbeatInterval, urls, delivered, closeEvents>>

NextClient ==
    \/ connect
    \/ onopen
    \/ onmessage
    \/ onerror
    \/ wsOnclose
    \/ checkAlive
    \/ abort
    \/ poll

InitClient == Init /\ ~storeDown

SpecClient == InitClient /\ [][NextClient]_vars

\* the event loop runs the iterator's code: a loop that can take a turn does
SpecClientFair ==
    InitClient /\ [][NextClient]_vars /\ WF_vars(poll) /\ WF_vars(connect)

\* ------------------------------------------------- functions of the server

notCallVars == <<httpVars, storeDown, remoteStore, streamVars, clientVars>>

\* the function of a specification is applied to its argument
call(returned) ==
    /\ UNCHANGED <<notCallVars, arg>>
    /\ ~called
    /\ called' = TRUE
    /\ ret' = returned

\* the error middleware answers an error thrown while a request was served
errorMiddleware == call(errorResponse(arg))

InitCall(inputs) ==
    /\ InitOthers
    /\ ~storeDown
    /\ arg \in inputs
    /\ ret = NoOutput
    /\ called = FALSE

NextErrors == errorMiddleware

SpecErrors == InitCall(ErrorCauses) /\ [][NextErrors]_vars

\* the handler of a route answers with what the method handler returned
createHandlerResponse == call(handlerResponse(arg))

NextResponses == createHandlerResponse

SpecResponses == InitCall(HandlerResults) /\ [][NextResponses]_vars

\* the body middleware reads the body of a POST request
readBody == call(bodyMiddleware(arg))

NextBodies == readBody

SpecBodies ==
    InitCall(BodyRequests({"application/octet-stream", "text/plain"})) /\ [][NextBodies]_vars

\* the handler of the subscription yields an item and the Subscription of
\* the same method receives its frame
subscribe == call(deliver(SubscriptionNsid, arg))

NextTypes == subscribe

SpecTypes == InitCall(Items) /\ [][NextTypes]_vars

\* the NSID of a request is parsed from its path
parseReqNsid == call(parseUrlNsid(arg.path))

NextNsids == parseReqNsid

SpecNsids == InitCall(UrlPaths) /\ [][NextNsids]_vars

\* a Subscription encodes its parameters in the URL and the server decodes
\* the query of the request
roundTrip == call(decodeParams(ParamProperties, getQueryParams(encodeQueryParams(arg))))

NextParams == roundTrip

SpecParams == InitCall(ParamMaps) /\ [][NextParams]_vars

\* a service verifies the JWT of a request
verifyServiceJwt == call(verifyJwt(arg))

NextJwts == verifyServiceJwt

SpecJwts == InitCall(VerifyCalls(Jwts)) /\ [][NextJwts]_vars

\* consumeMany picks the tightest of the results of its limiters
pickTightest == call(tightestOfBoth(arg))

NextTightest == pickTightest

SpecTightest == InitCall(TightestCalls) /\ [][NextTightest]_vars

\* ---- byFrame(ws): the generator has the locals messageQueue, error and
\* done of the keep-alive iterator, and the same handlers on the socket

\* the assignments of byFrame before its loop
byFrameHandlers ==
    <<  <<"onmessage", "pushToQueue">>,
        <<"onerror", "setError">>,
        <<"onclose", "setDone">>  >>

\* the consumer pulls for the first time on a socket it has just created:
\* the body of the generator runs up to its loop
byFrame ==
    /\ UNCHANGED notClientVars
    /\ iter = "connect"
    /\ ws = "none"
    /\ ws' = "connecting"
    /\ wsHandlers' = assign(NoHandlers, byFrameHandlers)
    /\ messageQueue' = <<>>
    /\ error' = NoError
    /\ done' = FALSE
    /\ iter' = "poll"
    /\ UNCHANGED <<acReason, signal, abortedAt, initialSetup, reconnects, isAlive,
                   heartbeatInterval, turn, urls, delivered, handed, closeEvents,
                   reconnectErrors, thrown>>

\* a turn of the loop of byFrame: while (!done && !error), yield the head of
\* the queue or await a timer; after the loop, throw the error if there is one
byFrameLoop ==
    IF ~done /\ error = NoError
    THEN (IF messageQueue # <<>> THEN "yield" ELSE "wait")
    ELSE IF error # NoError THEN "throw" ELSE "return"

\* the consumer pulls, or the timer the generator awaits fires
byFramePoll ==
    /\ UNCHANGED notClientVars
    /\ iter = "poll"
    /\ \E step \in {byFrameLoop} :
        /\ handed' = IF step = "yield" THEN Append(handed, Head(messageQueue)) ELSE handed
        /\ messageQueue' = IF step = "yield" THEN Tail(messageQueue) ELSE messageQueue
        /\ turn' = IF step = "wait" THEN 1 - turn ELSE turn
        /\ iter' = IF step = "throw" THEN "threw"
                   ELSE IF step = "return" THEN "returned" ELSE iter
        /\ thrown' = IF step = "throw" THEN error ELSE thrown
    /\ UNCHANGED <<ws, wsHandlers, error, done, acReason, signal, abortedAt, initialSetup,
                   reconnects, isAlive, heartbeatInterval, urls, delivered, closeEvents,
                   reconnectErrors>>

NextByFrame ==
    \/ byFrame
    \/ onopen
    \/ onmessage
    \/ onerror
    \/ wsOnclose
    \/ byFramePoll

SpecByFrame == InitClient /\ [][NextByFrame]_vars

\* ------------------------------------------------------------- properties
Range(seq) == {seq[i] : i \in DOMAIN seq}

IsPrefix(a, b) == Len(a) <= Len(b) /\ \A i \in DOMAIN a : a[i] = b[i]

Done == phase = "done"

\* the request in flight went to server.app
Http == phase # "idle" /\ ~req.upgrade

\* the request matches a route of a registered method
Routed == Http /\ req.nsid \in Methods /\ RouteVerb(req.nsid) = req.method

\* the query string or the body of the request violates the lexicon schema
FailsValidation == ~req.paramsOk \/ req.body = "invalid"

\* the limiter of fn had, when the request arrived, too few points left for it
ExceedsAtArrival(fn, ctx) ==
    /\ KeyOf(fn.limiter, fn, ctx) # None
    /\ PointsOf(fn.limiter, fn, ctx) >= 1
    /\ arrival[fn.limiter][KeyOf(fn.limiter, fn, ctx)] + PointsOf(fn.limiter, fn, ctx)
           > LimiterOpts(fn.limiter).points

GlobalExceedsAtArrival ==
    \E i \in DOMAIN globalRateLimiters :
        ExceedsAtArrival([limiter |-> globalRateLimiters[i], calcKey |-> None,
                          calcPoints |-> None],
                         [req |-> req, params |-> NoParams, auth |-> None])

RouteExceedsAtArrival ==
    /\ Routed
    /\ \E i \in DOMAIN routeRateLimiters(req.nsid) :
        ExceedsAtArrival(routeRateLimiters(req.nsid)[i],
                         [req |-> req, params |-> decodeQueryParams(req), auth |-> None])

FailsBoth == Routed /\ MethodConfig(req.nsid).auth /\ ~req.authOk /\ req.body = "invalid"

\* C1: a request that enters the route of a method registered with an auth
\* verifier, with credentials the verifier rejects and a body that violates
\* the input schema, is answered 401 AuthenticationRequired; its body is
\* never validated and the handler is never invoked.
C1_AuthBeforeInput ==
    (FailsBoth /\ "locals" \in Range(stages)) =>
        /\ "body" \notin Range(stages)
        /\ validatedInput = None
        /\ handlerCalls = 0
        /\ Done => resp = [status |-> 401, error |-> "AuthenticationRequired"]

C1_Witness ==
    /\ Done
    /\ FailsBoth
    /\ "auth" \in Range(stages)
    /\ resp.status = 401

\* C2 (as claimed): a request that exceeds a rate limit applying to its route,
\* global or route-level, and fails parameter or input validation is
\* answered 429 RateLimitExceeded.
C2_RateLimitBeforeValidation ==
    (Done /\ Routed /\ FailsValidation
        /\ (GlobalExceedsAtArrival \/ RouteExceedsAtArrival))
    => resp.error = "RateLimitExceeded"

\* C2 (amended): a request that exceeds a global rate limit and fails
\* parameter or input validation is answered 429 RateLimitExceeded; one that
\* fails validation and exceeds no global limit is answered with the
\* validation error (or the auth failure) whatever its route-level limiters
\* hold, and consumes no point of them.
C2_GlobalRateLimitBeforeValidation ==
    (Done /\ Routed /\ FailsValidation) =>
        IF GlobalExceedsAtArrival
        THEN resp = [status |-> 429, error |-> "RateLimitExceeded"]
        ELSE /\ resp.error \in {"InvalidRequest", "AuthenticationRequired"}
             /\ resp.error = "InvalidRequest" <=>
                   (MethodConfig(req.nsid).auth => req.authOk)
             /\ \A i \in DOMAIN rlLog : rlLog[i].stage # "route"

C2_Witness ==
    /\ Done
    /\ Routed
    /\ FailsValidation
    /\ ~GlobalExceedsAtArrival
    /\ RouteExceedsAtArrival
    /\ resp.error = "InvalidRequest"

\* the order of the stages as the claim has it and as the code has it
ClaimedOrder ==
    <<"locals", "auth", "ratelimit-global", "body", "ratelimit-route",
      "handler", "validate", "send">>

Rank(order, stage) == CHOOSE i \in DOMAIN order : order[i] = stage

InOrder(order) ==
    \A i, j \in DOMAIN stages :
        (i < j /\ stages[i] \in Range(order) /\ stages[j] \in Range(order))
            => Rank(order, stages[i]) < Rank(order, stages[j])

\* C3 (as claimed): the stages of a request run in the order locals, auth,
\* global rate-limit, body, route rate-limit, handler, response validate,
\* send, and no limiter consumes points of a request before its auth
\* verifier has succeeded.
C3_StageOrder ==
    Routed =>
        /\ InOrder(ClaimedOrder)
        /\ MethodConfig(req.nsid).auth =>
              \A i \in DOMAIN rlLog : rlLog[i].counted => rlLog[i].authed

\* the stages of a request to a registered method, in the order of the code
RouteStages(r) ==
    <<"ratelimit-global", "resolve", "locals">>
    \o (IF MethodConfig(r.nsid).auth THEN <<"auth">> ELSE <<>>)
    \o (IF LexDef(r.nsid) = "procedure" THEN <<"body">> ELSE <<>>)
    \o <<"params", "ratelimit-route", "handler">>
    \o (IF validateResponse THEN <<"validate">> ELSE <<>>)

\* C3 (amended): the stages of a request to a registered method run in the
\* order global rate-limit, method resolution, locals, auth, body
\* parse/validate, parameter validation, route rate-limit, handler, response
\* validate, send; the global limiters consume in the catch-all before the
\* auth verifier runs, and no route-level limiter consumes points before the
\* auth verifier has succeeded.
C3_StageOrderOfCode ==
    Routed =>
        /\ IF Done
           THEN /\ stages[Len(stages)] = "send"
                /\ IsPrefix(SubSeq(stages, 1, Len(stages) - 1), RouteStages(req))
                /\ resp.status = 200 =>
                      stages = RouteStages(req) \o <<"send">>
           ELSE IsPrefix(stages, RouteStages(req))
        /\ \A i \in DOMAIN rlLog :
              /\ rlLog[i].stage = "catchall" =>
                    ~rlLog[i].authed /\ stages[1] = "ratelimit-global"
              /\ (rlLog[i].stage = "route" /\ MethodConfig(req.nsid).auth) =>
                    rlLog[i].authed /\ req.authOk

C3_Witness ==
    /\ Done
    /\ req.nsid = "io.example.authTest"
    /\ resp.status = 200
    /\ stages = <<"ratelimit-global", "resolve", "locals", "auth", "body", "params",
                  "ratelimit-route", "handler", "validate", "send">>
    /\ \E i \in DOMAIN rlLog : rlLog[i].stage = "catchall" /\ rlLog[i].counted
    /\ \E i \in DOMAIN rlLog : rlLog[i].stage = "route" /\ rlLog[i].counted

\* C4 (as claimed): a request for an NSID without a method definition is
\* answered MethodNotImplemented even when a global rate limiter is exhausted
\* for its key.
C4_MethodNotImplementedBeforeRateLimit ==
    (Done /\ Http /\ LexDef(req.nsid) = None /\ GlobalExceedsAtArrival)
    => resp.error = "MethodNotImplemented"

\* C4 (amended): a request for an NSID without a method definition is
\* answered RateLimitExceeded when a global rate limiter is exhausted for its
\* key, and MethodNotImplemented only otherwise: the rejection by a global
\* limiter takes precedence over the method-resolution error.
C4_RateLimitBeforeMethodNotImplemented ==
    (Done /\ Http /\ LexDef(req.nsid) = None) =>
        resp = IF GlobalExceedsAtArrival
               THEN [status |-> 429, error |-> "RateLimitExceeded"]
               ELSE [status |-> 501, error |-> "MethodNotImplemented"]

C4_Witness ==
    /\ Done
    /\ Http
    /\ LexDef(req.nsid) = None
    /\ GlobalExceedsAtArrival
    /\ resp.status = 429
    /\ "resolve" \notin Range(stages)

\* C5: once a global limiter is exhausted for the key of a request, the
\* request is rejected with 429 RateLimitExceeded in the catch-all, whatever
\* its NSID and verb are, also when the method has no registered handler.
C5_GlobalLimitInCatchall ==
    (Done /\ Http /\ GlobalExceedsAtArrival) =>
        /\ resp = [status |-> 429, error |-> "RateLimitExceeded"]
        /\ stages = <<"ratelimit-global", "send">>
        /\ handlerCalls = 0

C5_Witness ==
    /\ Done
    /\ Http
    /\ req.nsid = "io.example.nonExistent"
    /\ GlobalExceedsAtArrival
    /\ resp.error = "RateLimitExceeded"

VerbMismatch ==
    \/ LexDef(req.nsid) = "query" /\ req.method # "GET"
    \/ LexDef(req.nsid) = "procedure" /\ req.method # "POST"

\* C6: a request that reaches method resolution with a verb that does not
\* agree with the kind of its method (query and not GET, procedure and not
\* POST) is rejected with 400 InvalidRequest; one for an NSID without a
\* lexicon definition with 501 MethodNotImplemented; in neither case is a
\* handler invoked.
C6_VerbAgreement ==
    Http =>
        /\ VerbMismatch => handlerCalls = 0 /\ "locals" \notin Range(stages)
        /\ LexDef(req.nsid) = None => handlerCalls = 0
        /\ (Done /\ "resolve" \in Range(stages)) =>
              /\ VerbMismatch => resp = [status |-> 400, error |-> "InvalidRequest"]
              /\ LexDef(req.nsid) = None =>
                    resp = [status |-> 501, error |-> "MethodNotImplemented"]

C6_Witness ==
    /\ Done
    /\ Http
    /\ req.nsid = "io.example.authTest"
    /\ req.method = "GET"
    /\ resp = [status |-> 400, error |-> "InvalidRequest"]

\* C7 (as claimed): a plain HTTP request to an NSID whose definition is a
\* subscription, once it reaches method resolution, is rejected with
\* InvalidRequest; a subscription is entered only on a WebSocket upgrade.
C7_SubscriptionOverHttp ==
    /\ (Done /\ Http /\ LexDef(req.nsid) = "subscription"
            /\ "resolve" \in Range(stages))
       => resp.error = "InvalidRequest"
    /\ (Done /\ resp.status = 101) => req.upgrade /\ req.nsid \in StreamMethods

\* C8: a limiter with limit P answers a request that maps to key k with
\* Exceeded (and the request with 429) exactly when the points asked of it
\* for k in the window, the request's own included, pass P; requests that
\* map to another key do not count; a request the limiter admits and no other
\* limiter of the route rejects reaches the handler.
C8_LimitPerKey ==
    /\ \A i \in DOMAIN rlLog :
          IF rlLog[i].counted
          THEN /\ rlLog[i].res.kind # "null"
               /\ rlLog[i].res.kind = "exceeded" <=>
                     rlLog[i].total > LimiterOpts(rlLog[i].limiter).points
               /\ rlLog[i].res.consumedPoints = rlLog[i].total
          ELSE rlLog[i].res.kind = "null"
    /\ (Done /\ (\E i \in DOMAIN rlLog : rlLog[i].res.kind = "exceeded")) =>
          /\ resp = [status |-> 429, error |-> "RateLimitExceeded"]
          /\ handlerCalls = 0
    /\ (Done /\ (\E i \in DOMAIN rlLog : rlLog[i].stage = "route")
             /\ (\A j \in DOMAIN rlLog : rlLog[j].res.kind # "exceeded")) =>
          /\ handlerCalls = 1
          /\ resp.error # "RateLimitExceeded"

C8_Witness ==
    /\ Done
    /\ resp.status = 429
    /\ \E i \in DOMAIN rlLog :
          /\ rlLog[i].limiter.kind = "shared"
          /\ rlLog[i].res.kind = "exceeded"
          /\ rlLog[i].total = SharedPoints + 1
    /\ \E k \in Keys : k # req.ip /\ requested[SharedId("shared-limit")][k] > 0

\* the limiter results that are exceeded / that have the least remainingPoints
Evaluated == {i \in DOMAIN rlLog : rlLog[i].res.kind # "null"}

Tightest ==
    IF \E i \in Evaluated : rlLog[i].res.kind = "exceeded"
    THEN {i \in Evaluated : rlLog[i].res.kind = "exceeded"}
    ELSE {i \in Evaluated :
            \A j \in Evaluated :
                rlLog[i].res.remainingPoints <= rlLog[j].res.remainingPoints}

\* C9 (as claimed): the rate-limit headers of a request describe the tightest
\* status among all limiters evaluated for it, global and route-level
\* together.
C9_HeadersTightest ==
    (Done /\ Evaluated # {}) =>
        \E i \in Tightest :
            headers = [limit |-> rlLog[i].res.limit,
                       remaining |-> rlLog[i].res.remainingPoints]

\* C10 (as claimed): when the configured bypass predicate holds for a
\* request, no limiter consumes points for it and it is never rejected with
\* RateLimitExceeded.
C10_Bypass ==
    (Http /\ bypass(req)) =>
        /\ \A i \in DOMAIN rlLog : rlLog[i].res.kind = "null"
        /\ store = arrival
        /\ resp.error # "RateLimitExceeded"

\* the evaluations of the request by limiters that compute the key with
\* defaultKey: neither the limiter nor the call configures a calcKey
DefaultKeyed ==
    {i \in DOMAIN rlLog : LimiterOpts(rlLog[i].limiter).calcKey = None}

\* C11 (as claimed): a request that carries neither x-forwarded-for nor
\* x-real-ip has the rate-limit key "unknown" with every limiter that has no
\* calcKey, and is counted by it like a request of any other key.
C11_DefaultKeyUnknown ==
    (Http /\ req.ip = None /\ ~storeDown) =>
        \A i \in DefaultKeyed :
            rlLog[i].points >= 1 =>
                /\ rlLog[i].key = "unknown"
                /\ rlLog[i].counted
                /\ rlLog[i].res.kind # "null"

\* the evaluations of the request in which the limiter called its store
StoreCalled ==
    {i \in DOMAIN rlLog : rlLog[i].key # None /\ rlLog[i].points >= 1}

\* C12 (as claimed): when the store throws during consume, a limiter
\* configured without failClosed answers null and the request goes on as if
\* the check had passed; one configured with failClosed lets the error
\* through, and the request fails without its handler being invoked.
C12_FailClosed ==
    (Http /\ storeDown) =>
        \A i \in StoreCalled :
            IF LimiterOpts(rlLog[i].limiter).failClosed
            THEN /\ rlLog[i].res.kind = "error"
                 /\ handlerCalls = 0
                 /\ Done => resp.status = 500
            ELSE rlLog[i].res.kind = "null"

\* C13: the first consume of a limiter for a key after a handler reset that
\* key with resetRouteRateLimits() starts from an empty bucket: it reports
\* consumedPoints = the points of the new request alone and remainingPoints =
\* limit minus those points, whatever was consumed before the reset.
C13_ResetEmptiesBucket ==
    /\ \A i \in DOMAIN rlLog :
          (rlLog[i].afterReset /\ rlLog[i].counted) =>
              /\ rlLog[i].res.consumedPoints = rlLog[i].points
              /\ rlLog[i].points <= LimiterOpts(rlLog[i].limiter).points =>
                    /\ rlLog[i].res.kind = "status"
                    /\ rlLog[i].res.remainingPoints =
                          LimiterOpts(rlLog[i].limiter).points - rlLog[i].points
    /\ \A lk \in resetKeys : store[lk[1]][lk[2]] = 0

C13_Witness ==
    /\ Done
    /\ req.nsid = "io.example.routeLimit"
    /\ nreq >= 3
    /\ \E i \in DOMAIN rlLog :
          /\ rlLog[i].stage = "route"
          /\ rlLog[i].afterReset
          /\ rlLog[i].counted
          /\ rlLog[i].key = "a"
          /\ rlLog[i].res.remainingPoints = RoutePoints - 1

\* ---------------------------------------------- stream server properties
\* the histories of the connection are complete
Exact == Len(yielded) < MaxHistory

ClientClosed == closedBy.by = "client"

IsError(f) == f.op = FrameType.Error

\* the i-th frame the producer of the connection yields
Yield(i) ==
    handler(producer).frames[((i - 1) % Len(handler(producer).frames)) + 1]

\* an Error frame is the last frame of a history
ErrorIsLast(history) == \A i \in DOMAIN history : IsError(history[i]) => i = Len(history)

\* C14: on a connection of the stream server the frames sent are the frames
\* the producer yielded, in the order it yielded them, up to and including
\* the first Error frame; after an Error frame nothing is sent and the
\* producer is not resumed. (Once the client has closed the socket a frame
\* that was on its way can no longer be sent.)
C14_FramesInOrder ==
    /\ ~resumedAfterError
    /\ Exact =>
          /\ \A i \in DOMAIN yielded : yielded[i] = Yield(i)
          /\ IsPrefix(sent, yielded)
          /\ (socket = "open" /\ loop # "body") => sent = yielded
          /\ loop = "ended" => Len(yielded) - Len(sent) <= 1
          /\ ErrorIsLast(sent)
          /\ ErrorIsLast(yielded)

C14_Witness ==
    /\ loop = "ended"
    /\ producer.kind = "raw"
    /\ producer.items = <<MessageFrame("m1"), ErrorFrame("BadOops", None), MessageFrame("m2")>>
    /\ sent = <<MessageFrame("m1"), ErrorFrame("BadOops", None)>>
    /\ pos = 2

\* C15: the server closes with Normal (1000) when the producer ended and no
\* Error frame was yielded, and with Policy (1008) and the Error frame's
\* error name as the reason when an Error frame was sent.
C15_CloseCodes ==
    (loop = "ended" /\ Exact) =>
        /\ Len(closeCalls) = 1
        /\ (result # "thrown" /\ sent = yielded /\ \A i \in DOMAIN yielded : ~IsError(yielded[i])) =>
              closeCalls[1] = [code |-> 1000, reason |-> None]
        /\ (sent # <<>> /\ IsError(sent[Len(sent)])) =>
              closeCalls[1] = [code |-> 1008, reason |-> sent[Len(sent)].error]
        /\ ~ClientClosed => closedBy = [by |-> "server", code |-> closeCalls[1].code, reason |-> closeCalls[1].reason]

C15_WitnessNormal ==
    /\ loop = "ended"
    /\ ~ClientClosed
    /\ sent = <<MessageFrame("m1"), MessageFrame("m2"), MessageFrame("m1")>>
    /\ closedBy.code = 1000

C15_WitnessPolicy ==
    /\ loop = "ended"
    /\ ~ClientClosed
    /\ sent = <<MessageFrame("m1"), ErrorFrame("BadOops", None)>>
    /\ closedBy = [by |-> "server", code |-> 1008, reason |-> "BadOops"]

C15_Witness == C15_WitnessNormal \/ C15_WitnessPolicy

\* the subscription of the connection fails: its auth verifier, its
\* parameters, or its handler, which throws before it yielded an Error frame
AuthFails == producer.kind = "subscription" /\ ~producer.authOk

ParamsFail == producer.kind = "subscription" /\ producer.authOk /\ ~producer.paramsOk

HandlerThrows ==
    /\ producer.kind = "subscription"
    /\ producer.authOk
    /\ producer.paramsOk
    /\ producer.ending \in {"throwXrpc", "throwError"}
    /\ \A i \in DOMAIN producer.items : ~IsError(producer.items[i])

ErrorFrames(history) == {i \in DOMAIN history : IsError(history[i])}

\* C16: when the auth verifier of a subscription fails, or its parameters
\* are invalid, or its handler throws, the server sends exactly one Error
\* frame with the error's name and message, nothing after it, and closes
\* with 1008; the handler is never started after a failed auth or invalid
\* parameters. (The frame reaches a client that has not closed the socket.)
C16_SubscriptionError ==
    /\ (AuthFails \/ ParamsFail) => (~handlerStarted /\ Len(yielded) <= 1)
    /\ ((AuthFails \/ ParamsFail \/ HandlerThrows) /\ loop = "ended" /\ ~ClientClosed) =>
          /\ Cardinality(ErrorFrames(sent)) = 1
          /\ IsError(sent[Len(sent)])
          /\ AuthFails => sent = <<ErrorFrame("AuthenticationRequired", "Authentication Required")>>
          /\ ParamsFail => sent[1].error = "InvalidRequest" /\ Len(sent) = 1
          /\ HandlerThrows =>
                /\ sent[Len(sent)].error = fromError(producer.ending).error
                /\ sent[Len(sent)].message = fromError(producer.ending).message
                /\ Len(sent) = Len(producer.items) + 1
          /\ closedBy = [by |-> "server", code |-> 1008, reason |-> sent[Len(sent)].error]

C16_WitnessParams ==
    /\ ParamsFail
    /\ producer.items # <<>>
    /\ loop = "ended"
    /\ ~ClientClosed
    /\ closedBy.code = 1008
    /\ ~handlerStarted

C16_WitnessThrow ==
    /\ HandlerThrows
    /\ producer.ending = "throwXrpc"
    /\ loop = "ended"
    /\ sent = <<MessageFrame("o1"), ErrorFrame("InvalidRequest", "bad request")>>
    /\ closedBy.code = 1008

C16_Witness == C16_WitnessParams \/ C16_WitnessThrow

\* C17: when the client closes the socket of a running stream the server
\* aborts the signal given to the handler and calls the iterator's return;
\* the producer goes on at most to the yield it was running to and then
\* has stopped for good.
C17_ClientCloseStopsProducer ==
    /\ [](ClientClosed => (aborted /\ returnCalls >= 1 /\ stepsAfterClose <= 1))
    /\ [](ClientClosed => <>[](gen = "completed"))

C17_Witness ==
    /\ ClientClosed
    /\ producer.ending = "loop"
    /\ stepsAfterClose = 1
    /\ gen = "completed"
    /\ aborted
    /\ Len(yielded) = 3

\* ------------------------------------------------------ client properties
\* C18: the consumer of the client is handed every binary frame the socket
\* delivers once the connection is open, once and in the order of arrival:
\* while the connection is up the frames handed over and those still queued
\* are the frames delivered.
C18_EveryFrameHanded ==
    /\ IsPrefix(handed, delivered)
    /\ (iter = "poll" /\ ws = "open") => handed \o messageQueue = delivered

\* the server closed connection n, which had opened and had seen no error,
\* with the normal code
CleanClose(n) ==
    \E i \in DOMAIN closeEvents :
        closeEvents[i] = [connection |-> n, code |-> CloseCode.Normal, opened |-> TRUE, by |-> "server", errored |-> FALSE]

\* C19: once the server has closed an opened connection cleanly, the
\* client's iterator ends by returning: it does not throw and opens no
\* further connection (unless opts.signal aborts it first).
C19_CleanCloseReturns ==
    \A n \in 1..MaxConnections :
        /\ [](CleanClose(n) => (Len(urls) = n /\ (iter = "threw" => acReason = "AbortError")))
        /\ [](CleanClose(n) => <>(iter = "returned" \/ acReason = "AbortError"))

\* connection n ended with the abnormal close code (and no error event), or
\* with an error that carries a network code
AbnormalEnd(n) ==
    \/ \E i \in DOMAIN closeEvents :
          /\ closeEvents[i].connection = n
          /\ closeEvents[i].code = CloseCode.Abnormal
          /\ closeEvents[i].by = "server"
          /\ ~closeEvents[i].errored
    \/ (Len(urls) = n /\ error \in networkErrorCodes)

Reconnected(n) ==
    /\ Len(urls) > n
    /\ \E i \in DOMAIN reconnectErrors : reconnectErrors[i].connection = n

\* C20: after a connection ended with the abnormal close code (1006) or
\* with an error of a network code, the client calls onReconnectError,
\* computes the URL again and opens a new connection (unless opts.signal
\* aborts it first); an error of another kind is thrown to the consumer.
C20_AbnormalCloseReconnects ==
    /\ \A n \in 1..(MaxConnections - 1) :
          [](AbnormalEnd(n) => <>(Reconnected(n) \/ acReason = "AbortError"))
    /\ [](iter = "threw" => thrown \notin networkErrorCodes)

\* the heartbeat of connection n found no "pong" since its last "ping" and
\* closed the socket (only checkAlive closes a socket whose loop is
\* polling), and no error event came
HeartbeatTimeout(n) ==
    Len(urls) = n /\ iter = "poll" /\ ws = "closing" /\ error = NoError

\* C21: after the heartbeat closed the socket of an opened connection for
\* want of a "pong", the client reconnects: it computes the URL again and
\* opens a new connection (unless opts.signal aborts it first).
C21_HeartbeatReconnects ==
    \A n \in 1..(MaxConnections - 1) :
        [](HeartbeatTimeout(n) => <>(Len(urls) > n \/ acReason = "AbortError"))

C23_GenericMessage ==
    (called /\ ret.status = 500) =>
        /\ ret.body.message = "Internal Server Error"
        /\ \A m \in ErrorMessages :
              errorResponse([arg EXCEPT !.message = m]).status = 500
                  => errorResponse([arg EXCEPT !.message = m]).body = ret.body

\* the output is not what the method declares: a body where none is
\* declared or none where one is, an encoding other than the declared one,
\* a body that does not satisfy the schema, or an object that is no
\* HandlerSuccess
ViolatesOutput(def, out) ==
    \/ out.kind = "success" /\ ~out.shapeOk
    \/ out.body # def.declared
    \/ def.declared /\ def.encoding # "*/*" /\ out.encoding # def.encoding
          /\ ~(def.encoding = "application/json" /\ out.encoding = "json")
    \/ def.schema /\ ~out.schemaOk

Compressed(r) ==
    /\ r.body.layers # <<>>
    /\ \A i \in 1..Len(r.body.layers) : r.body.layers[i].fmt = r.body.layers[i].enc

\* C25: a blob compressed with the chain of encodings its Content-Encoding
\* names (gzip and deflate, "identity" among them or not), on a route without
\* blob limit, is handed to the handler as exactly the original bytes, for a
\* chain of any length.
C25_DecompressionChain ==
    (/\ called
     /\ arg.contentType = "application/octet-stream"
     /\ Compressed(arg)
     /\ \A i \in 1..Len(arg.body.layers) : arg.body.layers[i].enc # "br"
     /\ arg.blobLimit = 0) =>
        (ret.kind = "next" /\ ret.body = Bytes(<<>>, arg.body.raw, 0))

\* the sizes of the body as it came and after every decompression stage
StageSizes(b) == {b.layers[i].size : i \in 1..Len(b.layers)} \cup {b.raw}

\* C26: on a route with blob limit L a blob, compressed with the gzip and
\* deflate encodings it names or not compressed, with or without
\* Content-Length, is answered 413 PayloadTooLarge if and only if its size as
\* it came or after some decompression stage exceeds L; otherwise it is
\* accepted.
C26_BlobLimit ==
    (/\ called
     /\ arg.contentType = "application/octet-stream"
     /\ \A i \in 1..Len(arg.body.layers) :
           arg.body.layers[i].fmt = arg.body.layers[i].enc /\ arg.body.layers[i].enc # "br"
     /\ arg.blobLimit # 0) =>
        /\ ret.kind = "PayloadTooLarge" <=> (\E n \in StageSizes(arg.body) : n > arg.blobLimit)
        /\ ret.kind \in {"PayloadTooLarge", "next"}

\* the places of "#" in a string; the prefix and the name of a string of
\* the form prefix#name
HashAt(str) == {i \in 1..Len(str) : str[i] = "#"}

PrefixOf(str) == SubSeq(str, 1, (CHOOSE i \in HashAt(str) : TRUE) - 1)

NameOf(str) == SubSeq(str, (CHOOSE i \in HashAt(str) : TRUE) + 1, Len(str))

\* C27: an item whose $type is "#name" or "n#name", n the NSID of the
\* subscription, is sent as a message frame with header t = "#name" and a
\* body without $type, and the Subscription of method n gives it the $type
\* "n#name"; a $type whose prefix is another NSID is carried in t as it is
\* and comes out as it is.
C27_TypeRoundTrip ==
    (called /\ arg.type # NoType /\ Cardinality(HashAt(arg.type)) = 1) =>
        /\ ret.frame.body = Item(NoType, arg.fields)
        /\ IF PrefixOf(arg.type) \in {<<>>, SubscriptionNsid}
           THEN /\ ret.frame.header = [op |-> FrameType.Message, t |-> <<"#">> \o NameOf(arg.type)]
                /\ ret.message = Item(SubscriptionNsid \o <<"#">> \o NameOf(arg.type), arg.fields)
           ELSE /\ ret.frame.header = [op |-> FrameType.Message, t |-> arg.type]
                /\ ret.message = arg

\* an item of $type "n#a" went out with t = "#a" and came in as "n#a"
C27_Witness ==
    /\ called
    /\ arg.type = <<"n", "#", "a">>
    /\ ret.frame.header.t = <<"#", "a">>
    /\ ret.message.type = <<"n", "#", "a">>

\* a string of letters, digits, "-" and "." that begins and ends with a
\* letter or digit and has no two separators in a row
Segmented(str) ==
    /\ str # <<>>
    /\ \A i \in 1..Len(str) : str[i] \in {"a", "1", "-", "."}
    /\ str[1] \in {"a", "1"} /\ str[Len(str)] \in {"a", "1"}
    /\ \A i \in 1..(Len(str) - 1) : ~(str[i] \in {"-", "."} /\ str[i + 1] \in {"-", "."})

\* a valid NSID: segments of letters and digits with interior hyphens,
\* separated by dots, two segments at least
ValidNsid(str) == Segmented(str) /\ \E i \in 1..Len(str) : str[i] = "."

\* C28: for every valid NSID s, parseUrlNsid returns exactly s for the path
\* "/xrpc/" + s, also when one "/" follows, or "?" and a query, or "/?" and a
\* query.
C28_ParseValidNsid ==
    (called /\ ValidNsid(arg.s)) => ret = Nsid(arg.s)

\* the NSID "a.a" was parsed from "/xrpc/a.a/?a"
C28_Witness ==
    /\ called
    /\ arg.s = <<"a", ".", "a">> /\ arg.suffix = <<"/", "?", "a">>
    /\ ret = Nsid(<<"a", ".", "a">>)

\* C29 as stated: for every string s that is not a valid NSID
\* parseUrlNsid("/xrpc/" + s) raises InvalidRequest "invalid xrpc path" and
\* returns no value (strings without "/" and "?").
C29_RejectsInvalidNsid ==
    (/\ called
     /\ arg.suffix = <<>>
     /\ \A i \in 1..Len(arg.s) : arg.s[i] \notin {"/", "?"}
     /\ ~ValidNsid(arg.s)) => ret = InvalidXrpcPath

\* C29, amended: for a string s without "/" and "?", parseUrlNsid("/xrpc/" +
\* s) raises InvalidRequest "invalid xrpc path" exactly when s has a
\* character other than letters, digits, "-" and ".", begins or ends with a
\* separator, has two separators in a row, or is shorter than two
\* characters; otherwise it returns s, also when s has a single segment.
C29_RejectsMalformed ==
    (/\ called
     /\ arg.suffix = <<>>
     /\ \A i \in 1..Len(arg.s) : arg.s[i] \notin {"/", "?"}) =>
        IF Segmented(arg.s) /\ Len(arg.s) >= 2
        THEN ret = Nsid(arg.s)
        ELSE ret = InvalidXrpcPath

\* "/xrpc/a_a" was rejected, and so was "/xrpc/a"
C29_Witness ==
    /\ called
    /\ arg.suffix = <<>>
    /\ arg.s \in {<<"a", "_", "a">>, <<"a">>, <<"a", ".", ".", "a">>, <<"a", "-">>}
    /\ ret = InvalidXrpcPath

\* C30 as stated: for every parameter map p of the declared types, decoding
\* the encoded p gives p.
C30_RoundTrip ==
    called => ret = arg

\* a value without an empty string: a non-empty string, an integer, a
\* boolean, or a non-empty array of non-empty strings
NoBlank(value) ==
    /\ value.type = "string" => value.str # <<>>
    /\ value.type = "array" =>
          (value.items # <<>> /\ \A i \in 1..Len(value.items) : value.items[i].str # <<>>)

\* C30, amended: decoding the encoded p gives p for every parameter map p of
\* the declared types whose strings are not empty and whose arrays are not
\* empty and hold no empty string; an empty string comes back undefined, an
\* empty array not at all, and an array loses its empty strings.
C30_RoundTripNoBlank ==
    called =>
        /\ (\A k \in DOMAIN arg : NoBlank(arg[k])) => ret = arg
        /\ \A k \in DOMAIN arg :
              /\ arg[k] = StringValue(<<>>) => (k \in DOMAIN ret /\ ret[k] = UndefinedValue)
              /\ arg[k] = ArrayValue(<<>>) => k \notin DOMAIN ret

\* a map with a string, the integer 0, false and an array came back as it was
C30_Witness ==
    /\ called
    /\ DOMAIN arg = DOMAIN ParamProperties
    /\ arg.limit = IntegerValue(0) /\ arg.full = BooleanValue(FALSE)
    /\ arg.tags = ArrayValue(<<StringValue(<<"a">>), StringValue(<<"0">>)>>)
    /\ ret = arg

PassesClaims(c) ==
    /\ c.jwt.parts = 3
    /\ c.jwt.typ \notin {"at+jwt", "refresh+jwt", "dpop+jwt"}
    /\ c.now <= c.jwt.exp
    /\ c.ownDid = "null" \/ c.jwt.aud = c.ownDid
    /\ c.lxm = "null" \/ c.jwt.lxm = c.lxm

\* C37: verifyJwt fetches the signing key first with forceRefresh false;
\* only when the signature does not verify under that key does it fetch
\* again with forceRefresh true, and it verifies again only if the fresh key
\* differs from the first; the token is accepted if and only if one of these
\* at most two verifications succeeds, and otherwise the error is
\* BadJwtSignature.
C37_KeyRefresh ==
    (called /\ PassesClaims(arg)) =>
        /\ ret.fetched \in {<<FALSE>>, <<FALSE, TRUE>>}
        /\ ret.fetched = <<FALSE, TRUE>> <=>
              verifySignatureWithKey(arg.signingKey, arg.jwt.sig) = "false"
        /\ ret.verifiedWith \in {<<arg.signingKey>>, <<arg.signingKey, arg.freshSigningKey>>}
        /\ Len(ret.verifiedWith) = 2 <=>
              (ret.fetched = <<FALSE, TRUE>> /\ arg.freshSigningKey # arg.signingKey)
        /\ ret.kind = "return" <=>
              \E i \in 1..Len(ret.verifiedWith) :
                  verifySignatureWithKey(ret.verifiedWith[i], arg.jwt.sig) = "true"
        /\ ret.kind # "return" => (ret.kind = "throw" /\ ret.name = "BadJwtSignature")

\* a token signed with the rotated key was accepted after the refresh
C37_Witness ==
    /\ called /\ PassesClaims(arg)
    /\ arg.signingKey = "k1" /\ arg.freshSigningKey = "k2" /\ arg.jwt.sig = "k2"
    /\ ret.kind = "return"
    /\ ret.fetched = <<FALSE, TRUE>> /\ ret.verifiedWith = <<"k1", "k2">>

\* the route of the request in flight is registered for its verb
RouteMatched == req.nsid \in Methods /\ RouteVerb(req.nsid) = req.method

\* a stage of the request in flight fails: the auth verifier of its route,
\* the validation of its parameters or of its body
VerifierFails == RouteMatched /\ MethodConfig(req.nsid).auth /\ ~req.authOk

InputFails == RouteMatched /\ LexDef(req.nsid) = "procedure" /\ req.body # "valid"

\* a limiter evaluated for the request in flight reported Exceeded
SomeExceeded == \E i \in DOMAIN rlLog : rlLog[i].res.kind = "exceeded"

\* C32: for every HTTP request the method handler is invoked at most once,
\* and only if the auth verifier of the route (when configured) succeeded,
\* the parameters and the input passed validation and no limiter evaluated
\* for the request reported Exceeded; a failure in any of these stages ends
\* the request with an error response without invoking the handler.
C32_HandlerOnce ==
    /\ handlerCalls <= 1
    /\ handlerCalls = 1 =>
          /\ RouteMatched
          /\ MethodConfig(req.nsid).auth => (req.authOk /\ locals = "admin")
          /\ req.paramsOk
          /\ LexDef(req.nsid) = "procedure" => (req.body = "valid" /\ validatedInput = "input")
          /\ ~SomeExceeded
    /\ (Done /\ Http /\ (VerifierFails \/ InputFails \/ ~req.paramsOk \/ SomeExceeded)) =>
          (resp.status >= 400 /\ resp.error # None /\ handlerCalls = 0)

\* the handler of the procedure with an auth verifier ran once, after the
\* verifier, the body validation and the limiters of the route
C32_Witness ==
    /\ Done /\ handlerCalls = 1
    /\ req.nsid = "io.example.authTest"
    /\ stages = <<"ratelimit-global", "resolve", "locals", "auth", "body", "params",
                  "ratelimit-route", "handler", "validate", "send">>
    /\ resp.status = 200

\* C33: each request consumes points from every global rate limiter exactly
\* once: an admitted request with a key and default points adds one point
\* to the count of its key in every global limiter, whether or not its
\* route declares a rateLimit of its own (so that the count is k after k
\* such requests).
C33_GlobalOnce ==
    (Done /\ Http /\ handlerCalls = 1 /\ resp.status = 200 /\ ~req.reset
          /\ req.ip # None /\ ~bypass(req) /\ ~storeDown) =>
        \A i \in DOMAIN globalRateLimiters :
            store[globalRateLimiters[i]][req.ip]
                = arrival[globalRateLimiters[i]][req.ip] + defaultPoints

RECURSIVE countedPoints(_, _, _)
\* the points the limiter evaluations of the log counted for a key of a
\* limiter
countedPoints(entries, l, k) ==
    IF entries = <<>> THEN 0
    ELSE (IF Head(entries).limiter = l /\ Head(entries).key = k /\ Head(entries).counted
          THEN Head(entries).points ELSE 0)
         + countedPoints(Tail(entries), l, k)

\* the limiters config.rateLimit of a method names: its inline limiters and
\* the shared ones it refers to
RouteSpecific(nsid) ==
    {l \in Limiters :
        \E i \in DOMAIN MethodConfig(nsid).rateLimit :
            IF MethodConfig(nsid).rateLimit[i].shared
            THEN l = SharedId(MethodConfig(nsid).rateLimit[i].name)
            ELSE l = InlineId(nsid, i)}

\* C34: resetRouteRateLimits() clears only the route-specific counters of
\* the calling route: after a request whose handler called it, every
\* counter of a global limiter, and of a limiter that belongs only to other
\* routes, holds what it held when the request arrived and the points the
\* request consumed from it.
C34_ResetRouteOnly ==
    (Done /\ Http /\ handlerCalls = 1 /\ req.reset /\ ~storeDown) =>
        \A l \in Limiters \ RouteSpecific(req.nsid) : \A k \in Keys :
            store[l][k] = arrival[l][k] + countedPoints(rlLog, l, k)

\* C35: getTightestLimit returns null exactly when every result is null,
\* returns an exceeded result whenever at least one result is exceeded, and
\* otherwise returns a status with the least remainingPoints; one more
\* result never turns an exceeded outcome into one that is not exceeded and
\* never increases the remainingPoints chosen.
C35_Tightest ==
    called =>
        /\ ret.of.kind = "null" <=> \A i \in DOMAIN arg.resps : arg.resps[i].kind = "null"
        /\ (\E i \in DOMAIN arg.resps : arg.resps[i].kind = "exceeded") =>
              (ret.of.kind = "exceeded" /\ \E i \in DOMAIN arg.resps : arg.resps[i] = ret.of)
        /\ ret.of.kind = "exceeded" => \E i \in DOMAIN arg.resps : arg.resps[i].kind = "exceeded"
        /\ ret.of.kind = "status" =>
              /\ \E i \in DOMAIN arg.resps : arg.resps[i] = ret.of
              /\ \A i \in DOMAIN arg.resps :
                    arg.resps[i].kind = "status" =>
                        ret.of.remainingPoints <= arg.resps[i].remainingPoints
        /\ ret.of.kind = "exceeded" => ret.with.kind = "exceeded"
        /\ ret.of.kind = "status" =>
              \/ ret.with.kind = "exceeded"
              \/ ret.with.kind = "status" /\ ret.with.remainingPoints <= ret.of.remainingPoints

\* a status with one point left was chosen among a null result and a status
\* with two, and one more status with none left took its place
C35_Witness ==
    /\ called
    /\ arg.resps = <<NullRes, formatLimiterStatus([points |-> 3], 1),
                     formatLimiterStatus([points |-> 3], 2)>>
    /\ arg.extra = formatLimiterStatus([points |-> 3], 3)
    /\ ret.of.remainingPoints = 1 /\ ret.with.remainingPoints = 0

RECURSIVE askedPoints(_, _, _)
\* the points the limiter evaluations of the log asked for a key of a
\* limiter, those of less than one point left out
askedPoints(entries, l, k) ==
    IF entries = <<>> THEN 0
    ELSE (IF Head(entries).limiter = l /\ Head(entries).key = k /\ Head(entries).points >= 1
          THEN Head(entries).points ELSE 0)
         + askedPoints(Tail(entries), l, k)

\* C36: consume returns null and leaves every bucket unchanged when calcKey
\* returns null or calcPoints returns a value that is not positive: the
\* request is not rejected by that limiter and takes no points from later
\* requests, while the other limiters of the route still count it.
C36_SkipLeavesBuckets ==
    (Http /\ ~storeDown /\ ~req.reset) =>
        /\ \A i \in DOMAIN rlLog :
              IF rlLog[i].key = None \/ rlLog[i].points < 1
              THEN rlLog[i].res = NullRes
              ELSE rlLog[i].res.kind \in {"status", "exceeded"}
        /\ \A l \in Limiters : \A k \in Keys :
              store[l][k] = arrival[l][k] + askedPoints(rlLog, l, k)

\* a request that the first limiter of its route does not count was admitted
\* with the bucket of that limiter full, and the second limiter counted it
C36_Witness ==
    /\ Done /\ ~storeDown
    /\ req.nsid = "io.example.toggleLimit" /\ ~req.shouldCount /\ req.ip = "ip1"
    /\ resp.status = 200
    /\ \E i \in DOMAIN rlLog :
          rlLog[i].limiter = InlineId("io.example.toggleLimit", 1) /\ rlLog[i].res = NullRes
    /\ store[InlineId("io.example.toggleLimit", 1)]["ip1"] = RoutePoints
    /\ arrival[InlineId("io.example.toggleLimit", 1)]["ip1"] = RoutePoints
    /\ store[InlineId("io.example.toggleLimit", 2)]["ip1"]
          = arrival[InlineId("io.example.toggleLimit", 2)]["ip1"] + 1

\* C39: inline rate limits of different routes are independent: a request
\* to one route leaves the points that remain in the inline limiters of
\* every other route as they were, for every key, whichever store backs the
\* limiters.
C39_InlineIndependent ==
    Http =>
        \A l \in Limiters : \A k \in Keys :
            (l.kind = "inline" /\ l.name # req.nsid) =>
                store[bucket(l)][k] = arrival[bucket(l)][k]

\* C38: byFrame yields every frame the socket received before it closed, in
\* the order of arrival, and only then finishes: when the generator has
\* returned, the frames handed to the consumer are the frames delivered.
C38_ByFrameYieldsAll ==
    iter = "returned" => handed = delivered

====
